---------------------------- MODULE Spec2Model ----------------------------
(***************************************************************************)
(* Chess Arena: the web game session (src/app.py) with its fallback        *)
(* minimax search and static evaluation, over a model of the rules library *)
(* (python-chess, the "Position Oracle") that the session drives.          *)
(*                                                                         *)
(* Squares are numbered as the rules library numbers them: a1 = 0,         *)
(* b1 = 1, ..., h1 = 7, a2 = 8, ..., h8 = 63.  Colours are booleans,       *)
(* WHITE = TRUE and BLACK = FALSE.  Piece types are 1..6 (pawn, knight,    *)
(* bishop, rook, queen, king); a white piece is its type, a black piece    *)
(* its type + 8, and 0 is an empty square.                                 *)
(***************************************************************************)
EXTENDS Integers, Sequences, FiniteSets, TLC

WHITE == TRUE
BLACK == FALSE

PAWN == 1
KNIGHT == 2
BISHOP == 3
ROOK == 4
QUEEN == 5
KING == 6

Squares == 0..63
NoSquare == 64

Piece(c, t) == IF c THEN t ELSE t + 8
PieceType(p) == p % 8
PieceColor(p) == p < 8

square_file(s) == s % 8
square_rank(s) == s \div 8

MinOf(a, b) == IF a < b THEN a ELSE b
MaxOf(a, b) == IF a > b THEN a ELSE b
Abs(x) == IF x < 0 THEN -x ELSE x

\* Op applied to v: a value that Op uses several times is computed once.
With(v, Op(_)) == Op(v)

(***************************************************************************)
(* Attack tables of the rules library, computed once.                      *)
(***************************************************************************)
OnBoard(f, r) == f >= 0 /\ f <= 7 /\ r >= 0 /\ r <= 7

StepTargets(s, deltas) ==
    { (square_rank(s) + d[2]) * 8 + square_file(s) + d[1] :
        d \in { e \in deltas : OnBoard(square_file(s) + e[1], square_rank(s) + e[2]) } }

KnightDeltas == { <<1, 2>>, <<2, 1>>, <<2, -1>>, <<1, -2>>,
                  <<-1, -2>>, <<-2, -1>>, <<-2, 1>>, <<-1, 2>> }
KingDeltas == { <<1, 0>>, <<1, 1>>, <<0, 1>>, <<-1, 1>>,
                <<-1, 0>>, <<-1, -1>>, <<0, -1>>, <<1, -1>> }

BB_KNIGHT_ATTACKS == [s \in Squares |-> StepTargets(s, KnightDeltas)]
BB_KING_ATTACKS == [s \in Squares |-> StepTargets(s, KingDeltas)]
\* BB_PAWN_ATTACKS[c][s]: the squares a pawn of colour c on s attacks.
BB_PAWN_ATTACKS ==
    [c \in BOOLEAN |-> [s \in Squares |->
        StepTargets(s, IF c THEN { <<-1, 1>>, <<1, 1>> } ELSE { <<-1, -1>>, <<1, -1>> })]]

\* The eight ray directions as <<file step, rank step>>: 1..4 are the rook's,
\* 5..8 the bishop's.
RayDirs == << <<0, 1>>, <<0, -1>>, <<1, 0>>, <<-1, 0>>,
              <<1, 1>>, <<-1, 1>>, <<1, -1>>, <<-1, -1>> >>
RookDirs == 1..4
BishopDirs == 5..8
QueenDirs == 1..8

RayLimit(x, step) == IF step = 1 THEN 7 - x ELSE IF step = -1 THEN x ELSE 7

\* BB_RAYS[s][d]: the squares from s (excluded) to the edge in direction d.
BB_RAYS ==
    [s \in Squares |-> [d \in 1..8 |->
        LET df == RayDirs[d][1]
            dr == RayDirs[d][2]
            n == MinOf(RayLimit(square_file(s), df), RayLimit(square_rank(s), dr))
        IN [k \in 1..n |-> s + k * (8 * dr + df)]]]


(***************************************************************************)
(* Positions.  A BoardState is what the rules library saves on its undo    *)
(* stack: pc (the piece on each square), turn, castling (the squares of    *)
(* the rooks that may still castle), ep (the en passant square or          *)
(* NoSquare), hmc (halfmove clock) and fmn (fullmove number).  A Board is  *)
(* a BoardState with move_stack (the moves played) and stack (the states   *)
(* saved before each of them).                                             *)
(***************************************************************************)
Move(f, t, promo) == [from |-> f, to |-> t, promotion |-> promo]

BackRank == <<ROOK, KNIGHT, BISHOP, QUEEN, KING, BISHOP, KNIGHT, ROOK>>

StartPieces ==
    [s \in Squares |->
        IF s < 8 THEN BackRank[s + 1]
        ELSE IF s < 16 THEN PAWN
        ELSE IF s < 48 THEN 0
        ELSE IF s < 56 THEN PAWN + 8
        ELSE BackRank[s - 55] + 8]

\* chess.Board(): the standard starting position with empty stacks.
StartBoard ==
    [pc |-> StartPieces, turn |-> WHITE, castling |-> {0, 7, 56, 63},
     ep |-> NoSquare, hmc |-> 0, fmn |-> 1,
     move_stack |-> <<>>, stack |-> <<>>]

BoardStateOf(b) ==
    [pc |-> b.pc, turn |-> b.turn, castling |-> b.castling,
     ep |-> b.ep, hmc |-> b.hmc, fmn |-> b.fmn]

OwnAt(b, s) == b.pc[s] # 0 /\ PieceColor(b.pc[s]) = b.turn
EnemyAt(b, s) == b.pc[s] # 0 /\ PieceColor(b.pc[s]) # b.turn

\* board.king(color): the square of that colour's king (NoSquare if none).
KingSquare(pc, c) ==
    IF \E s \in Squares : pc[s] = Piece(c, KING)
    THEN CHOOSE s \in Squares : pc[s] = Piece(c, KING)
    ELSE NoSquare

\* The first occupied square of a ray from its i-th square on, or NoSquare;
\* the square `gone` counts as empty (64 for none).
RECURSIVE FirstHit(_, _, _, _)
FirstHit(pc, ray, i, gone) ==
    IF i > Len(ray) THEN NoSquare
    ELSE IF pc[ray[i]] # 0 /\ ray[i] # gone THEN ray[i]
    ELSE FirstHit(pc, ray, i + 1, gone)

\* The squares of a ray up to and including its first occupied square.
RECURSIVE RayReach(_, _, _)
RayReach(pc, ray, i) ==
    IF i > Len(ray) THEN {}
    ELSE IF pc[ray[i]] # 0 THEN {ray[i]}
    ELSE {ray[i]} \cup RayReach(pc, ray, i + 1)

SlideAttacks(pc, s, dirs) == UNION { RayReach(pc, BB_RAYS[s][d], 1) : d \in dirs }

RayDirsOf(t) == IF t = BISHOP THEN BishopDirs ELSE IF t = ROOK THEN RookDirs ELSE QueenDirs

\* board.attacks_mask(square): the squares the piece on s attacks.
attacks_mask(pc, s) ==
    LET t == PieceType(pc[s]) IN
    IF t = PAWN THEN BB_PAWN_ATTACKS[PieceColor(pc[s])][s]
    ELSE IF t = KNIGHT THEN BB_KNIGHT_ATTACKS[s]
    ELSE IF t = KING THEN BB_KING_ATTACKS[s]
    ELSE IF t \in {BISHOP, ROOK, QUEEN} THEN SlideAttacks(pc, s, RayDirsOf(t))
    ELSE {}

SliderOn(pc, c, d, h) ==
    /\ h # NoSquare
    /\ \/ pc[h] = Piece(c, QUEEN)
       \/ pc[h] = Piece(c, IF d \in RookDirs THEN ROOK ELSE BISHOP)

\* The slider of colour c that attacks sq along direction d, if any.
SliderHit(pc, c, d, h) == IF SliderOn(pc, c, d, h) THEN {h} ELSE {}

\* board.attackers(color, square) with the square `gone` taken as empty:
\* the squares of the pieces of colour c that attack sq.
attackers_gone(pc, c, sq, gone) ==
    { s \in BB_KNIGHT_ATTACKS[sq] : pc[s] = Piece(c, KNIGHT) }
    \cup { s \in BB_KING_ATTACKS[sq] : pc[s] = Piece(c, KING) }
    \cup { s \in BB_PAWN_ATTACKS[~c][sq] : pc[s] = Piece(c, PAWN) }
    \cup UNION { SliderHit(pc, c, d, FirstHit(pc, BB_RAYS[sq][d], 1, gone)) : d \in QueenDirs }

attackers(pc, c, sq) == attackers_gone(pc, c, sq, NoSquare)

\* board.is_attacked_by(color, square).
is_attacked_gone(pc, c, sq, gone) ==
    \/ \E s \in BB_KNIGHT_ATTACKS[sq] : pc[s] = Piece(c, KNIGHT)
    \/ \E s \in BB_PAWN_ATTACKS[~c][sq] : pc[s] = Piece(c, PAWN)
    \/ \E s \in BB_KING_ATTACKS[sq] : pc[s] = Piece(c, KING)
    \/ \E d \in QueenDirs : SliderOn(pc, c, d, FirstHit(pc, BB_RAYS[sq][d], 1, gone))

is_attacked_by(pc, c, sq) == is_attacked_gone(pc, c, sq, NoSquare)

\* board.is_check(): the side to move has its king attacked.
is_check(b) ==
    LET k == KingSquare(b.pc, b.turn) IN
    k # NoSquare /\ is_attacked_by(b.pc, ~b.turn, k)

(***************************************************************************)
(* Move generation, in the order the rules library enumerates the moves.   *)
(***************************************************************************)
\* scan_reversed: the squares of a set, highest first.
SquaresDown == [i \in 1..64 |-> 64 - i]

scan_reversed(S) ==
    IF S = {} THEN <<>> ELSE SelectSeq(SquaresDown, LAMBDA s : s \in S)

\* The squares that the piece p standing on s attacks on an otherwise empty
\* board, as a list, highest first (computed once).
ATTACKS_DOWN ==
    [p \in 0..15 |-> [s \in Squares |->
        scan_reversed(attacks_mask([x \in Squares |-> IF x = s THEN p ELSE 0], s))]]

\* The concatenation ss[lo] \o ... \o ss[hi] of a sequence of sequences, by
\* halves so that the nesting stays shallow.
RECURSIVE ConcatRange(_, _, _)
ConcatRange(ss, lo, hi) ==
    IF lo > hi THEN <<>>
    ELSE IF lo = hi THEN ss[lo]
    ELSE ConcatRange(ss, lo, (lo + hi) \div 2) \o ConcatRange(ss, (lo + hi) \div 2 + 1, hi)

Concat(ss) == ConcatRange(ss, 1, Len(ss))

\* The moves of a pawn move to a square: the four promotions on the last
\* ranks (queen, rook, bishop, knight), else the plain move.
PawnMovesTo(f, t) ==
    IF square_rank(t) \in {0, 7}
    THEN <<Move(f, t, QUEEN), Move(f, t, ROOK), Move(f, t, BISHOP), Move(f, t, KNIGHT)>>
    ELSE <<Move(f, t, 0)>>

\* board.generate_pseudo_legal_ep(from_mask, to_mask).
generate_pseudo_legal_ep(b, from_mask, to_mask) ==
    IF b.ep = NoSquare \/ b.ep \notin to_mask THEN <<>>
    ELSE IF b.pc[b.ep] # 0 THEN <<>>
    ELSE LET capturers ==
                 { s \in BB_PAWN_ATTACKS[~b.turn][b.ep] \cap from_mask :
                     /\ b.pc[s] = Piece(b.turn, PAWN)
                     /\ square_rank(s) = (IF b.turn THEN 4 ELSE 3) }
             fs == scan_reversed(capturers)
         IN [i \in 1..Len(fs) |-> Move(fs[i], b.ep, 0)]

\* board.clean_castling_rights(): the rights whose rook and king still stand
\* on their original squares.
clean_castling_rights(b) ==
    { r \in b.castling :
        LET c == (r < 8) IN
        /\ r \in {0, 7, 56, 63}
        /\ b.pc[r] = Piece(c, ROOK)
        /\ b.pc[IF c THEN 4 ELSE 60] = Piece(c, KING) }

\* board.generate_castling_moves(from_mask, to_mask) for standard chess; the
\* move is written as the king's two-square move.
generate_castling_moves(b, from_mask, to_mask) ==
    LET back == IF b.turn THEN 0 ELSE 56
        king == back + 4
        cands == SelectSeq(<<back + 7, back>>,
                           LAMBDA r : r \in clean_castling_rights(b) \cap to_mask)
        ok(r) ==
            LET a_side == r < king
                king_to == IF a_side THEN back + 2 ELSE back + 6
                rook_to == IF a_side THEN back + 3 ELSE back + 5
                king_path == IF a_side THEN {back + 3} ELSE {back + 5}
                rook_path == IF a_side THEN {back + 1, back + 2} ELSE {back + 6}
            IN /\ \A s \in king_path \cup rook_path \cup {king_to, rook_to} :
                     b.pc[s] = 0 \/ s = king \/ s = r
               /\ \A s \in king_path \cup {king, king_to} :
                     ~is_attacked_gone(b.pc, ~b.turn, s, king)
        mv(r) == Move(king, IF r < king THEN back + 2 ELSE back + 6, 0)
    IN IF king \notin from_mask \/ b.pc[king] # Piece(b.turn, KING) THEN <<>>
       ELSE Concat([i \in 1..Len(cands) |->
                       IF ok(cands[i]) THEN <<mv(cands[i])>> ELSE <<>>])

\* The moves from f to each square of ts, without promotion.
MovesTo(f, ts) == [j \in 1..Len(ts) |-> Move(f, ts[j], 0)]

\* The pawn moves from f to each square of ts.
PawnMovesToEach(f, ts) == Concat([j \in 1..Len(ts) |-> PawnMovesTo(f, ts[j])])

\* The squares among to_mask that the piece on f attacks (reach) and that
\* are held as `held` tells, highest first.
Targets(b, f, reach, to_mask, held(_)) ==
    SelectSeq(ATTACKS_DOWN[b.pc[f]][f], LAMBDA t : t \in reach /\ t \in to_mask /\ held(t))

\* The moves of the pieces (not pawns) on the squares fs: to any square of
\* to_mask that the piece attacks and that its own side does not hold.
PieceMoves(b, fs, to_mask) ==
    Concat([i \in 1..Len(fs) |->
        MovesTo(fs[i], Targets(b, fs[i], attacks_mask(b.pc, fs[i]), to_mask,
                               LAMBDA t : ~OwnAt(b, t)))])

PawnCaptures(b, pawns, to_mask) ==
    Concat([i \in 1..Len(pawns) |->
        PawnMovesToEach(pawns[i], Targets(b, pawns[i], Squares, to_mask,
                                          LAMBDA t : EnemyAt(b, t)))])

\* The advances of the pawns on fs by `step`; they keep the order of their
\* target squares, which is the order of the pawns.
PawnSteps(fs, step) == Concat([i \in 1..Len(fs) |-> PawnMovesTo(fs[i], fs[i] + step)])

\* Single and double advances of the pawns whose next square is empty.
PawnAdvances(b, single_from, up, to_mask) ==
    PawnSteps(SelectSeq(single_from, LAMBDA f : (f + up) \in to_mask), up)
    \o PawnSteps(SelectSeq(single_from, LAMBDA f :
                     /\ square_rank(f) = (IF b.turn THEN 1 ELSE 6)
                     /\ b.pc[f + 2 * up] = 0
                     /\ (f + 2 * up) \in to_mask),
                 2 * up)

PawnMoves(b, pawns, up, from_mask, to_mask) ==
    IF pawns = <<>> THEN <<>>
    ELSE PawnCaptures(b, pawns, to_mask)
         \o PawnAdvances(b, SelectSeq(pawns, LAMBDA f : b.pc[f + up] = 0), up, to_mask)
         \o generate_pseudo_legal_ep(b, from_mask, to_mask)

\* The squares of a list that hold a pawn (is_pawn) or another piece.
OfKind(b, own, is_pawn) ==
    SelectSeq(own, LAMBDA s : (PieceType(b.pc[s]) = PAWN) = is_pawn)

PseudoLegalFrom(b, own, from_mask, to_mask) ==
    PieceMoves(b, OfKind(b, own, FALSE), to_mask)
    \o (IF \E s \in from_mask : PieceType(b.pc[s]) = KING
        THEN generate_castling_moves(b, from_mask, to_mask)
        ELSE <<>>)
    \o PawnMoves(b, OfKind(b, own, TRUE), IF b.turn THEN 8 ELSE -8, from_mask, to_mask)

\* board.generate_pseudo_legal_moves(from_mask, to_mask): piece moves, then
\* castling, pawn captures, single and double pawn advances, en passant.
generate_pseudo_legal_moves(b, from_mask, to_mask) ==
    PseudoLegalFrom(b, scan_reversed({ s \in from_mask : OwnAt(b, s) }), from_mask, to_mask)

\* ray(a, b): every square of the line (rank, file or diagonal) through two
\* distinct aligned squares, and no square if they are not aligned.
ray(a, b) ==
    LET fa == square_file(a)
        ra == square_rank(a)
        fb == square_file(b)
        rb == square_rank(b)
    IN IF a = b THEN {}
       ELSE IF ra = rb THEN { s \in Squares : square_rank(s) = ra }
       ELSE IF fa = fb THEN { s \in Squares : square_file(s) = fa }
       ELSE IF fa - ra = fb - rb
            THEN { s \in Squares : square_file(s) - square_rank(s) = fa - ra }
       ELSE IF fa + ra = fb + rb
            THEN { s \in Squares : square_file(s) + square_rank(s) = fa + ra }
       ELSE {}

\* square_distance(a, b): the number of king steps between two squares.
square_distance(a, b) ==
    MaxOf(Abs(square_file(a) - square_file(b)), Abs(square_rank(a) - square_rank(b)))

\* between(a, b): the squares strictly between two aligned squares.
between(a, b) == { s \in ray(a, b) : MinOf(a, b) < s /\ s < MaxOf(a, b) }

\* The piece of the side to move that is the first piece h on the ray r from
\* its king, with an enemy slider of that direction next behind it.
RayBlocker(b, king, d, r, h) ==
    IF /\ h # NoSquare
       /\ OwnAt(b, h)
       /\ SliderOn(b.pc, ~b.turn, d, FirstHit(b.pc, r, square_distance(king, h) + 1, NoSquare))
    THEN {h} ELSE {}

RayBlockerOn(b, king, d, r) == RayBlocker(b, king, d, r, FirstHit(b.pc, r, 1, NoSquare))

\* board._slider_blockers(king): the pieces of the side to move that alone
\* stand between their king and an enemy slider aimed at it.
slider_blockers(b, king) ==
    UNION { RayBlockerOn(b, king, d, BB_RAYS[king][d]) : d \in QueenDirs }

is_en_passant(b, m) ==
    /\ b.ep = m.to
    /\ PieceType(b.pc[m.from]) = PAWN
    /\ Abs(m.to - m.from) \in {7, 9}
    /\ b.pc[m.to] = 0

is_castling(b, m) ==
    /\ PieceType(b.pc[m.from]) = KING
    /\ \/ Abs(square_file(m.from) - square_file(m.to)) > 1
       \/ b.pc[m.to] = Piece(b.turn, ROOK)

\* board.is_zeroing(move): a pawn move or a capture.
is_zeroing(b, m) ==
    \/ PieceType(b.pc[m.from]) = PAWN
    \/ PieceType(b.pc[m.to]) = PAWN
    \/ EnemyAt(b, m.from)
    \/ EnemyAt(b, m.to)

\* The pieces after a move: en passant removes the passed pawn, a promotion
\* replaces the pawn, castling also moves the rook.
PiecesAfter(b, m) ==
    LET p == b.pc[m.from]
        placed == IF m.promotion # 0 THEN Piece(b.turn, m.promotion) ELSE p
        back == IF b.turn THEN 0 ELSE 56
        castles == /\ PieceType(p) = KING
                   /\ m.from = back + 4
                   /\ m.to \in {back + 2, back + 6}
                   /\ b.pc[m.to] # Piece(b.turn, ROOK)
        a_side == square_file(m.to) < square_file(m.from)
    IN IF castles
       THEN [b.pc EXCEPT ![m.from] = 0,
                         ![IF a_side THEN back ELSE back + 7] = 0,
                         ![m.to] = p,
                         ![IF a_side THEN back + 3 ELSE back + 5] = Piece(b.turn, ROOK)]
       ELSE IF is_en_passant(b, m)
       THEN [b.pc EXCEPT ![m.from] = 0,
                         ![m.to + (IF b.turn THEN -8 ELSE 8)] = 0,
                         ![m.to] = placed]
       ELSE [b.pc EXCEPT ![m.from] = 0, ![m.to] = placed]

\* board._from_chess960(chess960 = False, ...): a king on e1 or e8 that is
\* sent to the corner square of a rook ("e1h1") castles; the move is read
\* as the king's move of two squares ("e1g1").
_from_chess960(b, m) ==
    IF m.promotion # 0 THEN m
    ELSE IF m.from = 4 /\ PieceType(b.pc[4]) = KING /\ m.to \in {0, 7}
    THEN Move(4, IF m.to = 7 THEN 6 ELSE 2, 0)
    ELSE IF m.from = 60 /\ PieceType(b.pc[60]) = KING /\ m.to \in {56, 63}
    THEN Move(60, IF m.to = 63 THEN 62 ELSE 58, 0)
    ELSE m

\* board.push(move): save the state, play the move, pass the turn.  The
\* move is played and kept on the move stack as _from_chess960 reads it.
push(b, sent) ==
    LET m == _from_chess960(b, sent)
        p == b.pc[m.from]
        diff == m.to - m.from
        rights == (clean_castling_rights(b) \ {m.from, m.to})
                  \ (IF PieceType(p) = KING
                     THEN (IF b.turn THEN 0..7 ELSE 56..63) ELSE {})
        ep == IF PieceType(p) = PAWN /\ diff = 16 /\ square_rank(m.from) = 1
              THEN m.from + 8
              ELSE IF PieceType(p) = PAWN /\ diff = -16 /\ square_rank(m.from) = 6
              THEN m.from - 8
              ELSE NoSquare
    IN [pc |-> PiecesAfter(b, m),
        turn |-> ~b.turn,
        castling |-> rights,
        ep |-> ep,
        hmc |-> IF is_zeroing(b, m) THEN 0 ELSE b.hmc + 1,
        fmn |-> IF b.turn = BLACK THEN b.fmn + 1 ELSE b.fmn,
        move_stack |-> Append(b.move_stack, m),
        stack |-> Append(b.stack, BoardStateOf(b))]

\* board.pop(): restore the state saved by the last push.
pop(b) ==
    LET n == Len(b.stack)
        st == b.stack[n]
    IN [pc |-> st.pc, turn |-> st.turn, castling |-> st.castling,
        ep |-> st.ep, hmc |-> st.hmc, fmn |-> st.fmn,
        move_stack |-> SubSeq(b.move_stack, 1, n - 1),
        stack |-> SubSeq(b.stack, 1, n - 1)]

\* The checker that the library takes first (the most significant bit).
FirstChecker(checkers) == CHOOSE c \in checkers : \A x \in checkers : x <= c

\* The masks of the pseudo-legal moves that can be legal: all of them, or,
\* in check, the moves of the pieces other than the king that capture the
\* checker or go between it and the king.
EvasionFrom(b, checkers) ==
    IF checkers = {} THEN Squares ELSE { s \in Squares : PieceType(b.pc[s]) # KING }

EvasionTo(king, checkers) ==
    IF checkers = {} THEN Squares
    ELSE between(king, FirstChecker(checkers)) \cup checkers

EvasionEp(b, target, checker) ==
    IF b.ep # NoSquare /\ b.ep \notin target /\ b.ep + (IF b.turn THEN -8 ELSE 8) = checker
    THEN generate_pseudo_legal_ep(b, Squares, Squares)
    ELSE <<>>

\* board._generate_evasions(king, checkers, from_mask, to_mask): the king's
\* moves off the checking lines, then, against a single checker, `blocking`
\* (the pseudo-legal moves under the evasion masks) and the en passant
\* capture of a checking pawn.
generate_evasions(b, king, checkers, blocking) ==
    LET sliders == { c \in checkers : PieceType(b.pc[c]) \in {BISHOP, ROOK, QUEEN} }
        attacked == UNION { ray(king, c) \ {c} : c \in sliders }
    IN MovesTo(king, scan_reversed({ t \in BB_KING_ATTACKS[king] :
                                      ~OwnAt(b, t) /\ t \notin attacked }))
       \o (IF Cardinality(checkers) = 1
           THEN blocking \o EvasionEp(b, EvasionTo(king, checkers), FirstChecker(checkers))
           ELSE <<>>)

\* board._is_safe(king, blockers, move): the move does not leave the mover's
\* king attacked.
is_safe(b, king, blockers, m) ==
    IF m.from = king
    THEN is_castling(b, m) \/ ~is_attacked_by(b.pc, ~b.turn, m.to)
    ELSE IF is_en_passant(b, m)
    THEN ~is_attacked_by(PiecesAfter(b, m), ~b.turn, king)
    ELSE m.from \notin blockers \/ king \in ray(m.from, m.to)

\* board.generate_legal_moves() given the king, its blockers, its checkers
\* and the pseudo-legal moves under the evasion masks.
LegalAmong(b, king, blockers, checkers, pseudo) ==
    IF king = NoSquare THEN pseudo
    ELSE SelectSeq(IF checkers # {} THEN generate_evasions(b, king, checkers, pseudo)
                   ELSE pseudo,
                   LAMBDA m : is_safe(b, king, blockers, m))

LegalWithKing(b, king, checkers) ==
    LegalAmong(b, king, slider_blockers(b, king), checkers,
               generate_pseudo_legal_moves(b, EvasionFrom(b, checkers), EvasionTo(king, checkers)))

\* list(board.legal_moves), in the library's enumeration order.
legal_moves(b) ==
    With(KingSquare(b.pc, b.turn), LAMBDA king :
         LegalWithKing(b, king,
                       IF king = NoSquare THEN {} ELSE attackers(b.pc, ~b.turn, king)))

(***************************************************************************)
(* Termination, as the rules library reports it.                           *)
(***************************************************************************)
is_checkmate(b) == is_check(b) /\ legal_moves(b) = <<>>

is_stalemate(b) == ~is_check(b) /\ legal_moves(b) = <<>>

SquaresOf(b, c, types) ==
    { s \in Squares : b.pc[s] # 0 /\ PieceColor(b.pc[s]) = c /\ PieceType(b.pc[s]) \in types }

\* A dark square has an even file + rank sum (a1 is dark).
IsDark(s) == (square_file(s) + square_rank(s)) % 2 = 0

\* board.has_insufficient_material(color): that colour cannot mate by any
\* sequence of legal moves.
has_insufficient_material(b, c) ==
    IF SquaresOf(b, c, {PAWN, ROOK, QUEEN}) # {} THEN FALSE
    ELSE IF SquaresOf(b, c, {KNIGHT}) # {}
    THEN /\ Cardinality(SquaresOf(b, c, {PAWN, KNIGHT, BISHOP, ROOK, QUEEN, KING})) <= 2
         /\ SquaresOf(b, ~c, {PAWN, KNIGHT, BISHOP, ROOK}) = {}
    ELSE IF SquaresOf(b, c, {BISHOP}) # {}
    THEN LET bishops == SquaresOf(b, WHITE, {BISHOP}) \cup SquaresOf(b, BLACK, {BISHOP})
             same_color == \/ \A s \in bishops : ~IsDark(s)
                           \/ \A s \in bishops : IsDark(s)
         IN /\ same_color
            /\ SquaresOf(b, WHITE, {PAWN, KNIGHT}) = {}
            /\ SquaresOf(b, BLACK, {PAWN, KNIGHT}) = {}
    ELSE TRUE

is_insufficient_material(b) ==
    has_insufficient_material(b, WHITE) /\ has_insufficient_material(b, BLACK)

\* Some move of the list lm is an en passant capture.
AnyEnPassant(b, lm) == \E i \in DOMAIN lm : is_en_passant(b, lm[i])

\* board.has_legal_en_passant().
has_legal_en_passant(b) == b.ep # NoSquare /\ AnyEnPassant(b, legal_moves(b))

\* board._transposition_key(): what makes two positions the same position;
\* ep_legal is has_legal_en_passant().
transposition_key(b, ep_legal) ==
    <<b.pc, b.turn, clean_castling_rights(b), IF ep_legal THEN b.ep ELSE NoSquare>>

\* board.is_irreversible(move), on the board the move is played from;
\* ep_legal is has_legal_en_passant().
is_irreversible(b, m, ep_legal) ==
    \/ is_zeroing(b, m)
    \/ push(b, m).castling # clean_castling_rights(b)
    \/ ep_legal

\* board.is_repetition(count): take moves back until the position has been
\* seen count times, an irreversible move is met or the moves run out.
RECURSIVE RepetitionFrom(_, _, _)
RepetitionBack(prev, m, ep_legal, key, count) ==
    IF is_irreversible(prev, m, ep_legal) THEN FALSE
    ELSE RepetitionFrom(prev, key,
                        IF transposition_key(prev, ep_legal) = key THEN count - 1 ELSE count)

RepetitionPop(prev, m, key, count) ==
    RepetitionBack(prev, m, has_legal_en_passant(prev), key, count)

RepetitionFrom(b, key, count) ==
    IF count <= 1 THEN TRUE
    ELSE IF Len(b.move_stack) < count - 1 THEN FALSE
    ELSE RepetitionPop(pop(b), b.move_stack[Len(b.move_stack)], key, count)

is_repetition(b, count) ==
    RepetitionFrom(b, transposition_key(b, has_legal_en_passant(b)), count)

FivefoldCount == 5
SeventyFiveMoveClock == 150

is_fivefold_repetition(b) == is_repetition(b, FivefoldCount)

is_seventyfive_moves(b) == b.hmc >= SeventyFiveMoveClock /\ legal_moves(b) # <<>>

\* board.is_game_over(): checkmate, insufficient material, stalemate, the
\* seventy-five-move rule or fivefold repetition (draws that must be claimed
\* do not end the game).
is_game_over(b) ==
    \/ legal_moves(b) = <<>>
    \/ is_insufficient_material(b)
    \/ b.hmc >= SeventyFiveMoveClock
    \/ is_fivefold_repetition(b)

(***************************************************************************)
(* Static evaluation (ChessGame._evaluate_position).  The code's scores    *)
(* are floats that are all multiples of 0.5; the model counts them in      *)
(* half points, so a score of the code is the model's score / ScoreScale.  *)
(***************************************************************************)
ScoreScale == 2
MateScore == 10000
CheckBonus == 500
PawnRankBonus == 10
KingAttackPenalty == 50
CenterBonus == 20
\* float('inf'): above every score the evaluation can return.
Infinity == 100000000

\* piece_values, in half points (the king has no value).
piece_values ==
    [t \in 0..7 |->
        IF t = PAWN THEN 2 ELSE IF t = KNIGHT THEN 6 ELSE IF t = BISHOP THEN 7
        ELSE IF t = ROOK THEN 10 ELSE IF t = QUEEN THEN 18 ELSE 0]

\* D4, E4, D5, E5, D3, E3, D6, E6.
center_squares == <<27, 28, 35, 36, 19, 20, 43, 44>>

Signed(c, v) == IF c THEN v ELSE -v

\* f[lo] + ... + f[hi], by halves so that the nesting stays shallow.
RECURSIVE SumRange(_, _, _)
SumRange(f, lo, hi) ==
    IF lo > hi THEN 0
    ELSE IF lo = hi THEN f[lo]
    ELSE SumRange(f, lo, (lo + hi) \div 2) + SumRange(f, (lo + hi) \div 2 + 1, hi)

\* The sum of f over the squares a1..h8, and of a sequence of numbers.
SumSquares(f) == SumRange(f, 0, 63)

SumSeq(f) == SumRange(f, 1, Len(f))

\* 1. Material count.
MaterialTerm(b) ==
    SumSquares([s \in Squares |->
        IF b.pc[s] = 0 THEN 0
        ELSE Signed(PieceColor(b.pc[s]), piece_values[PieceType(b.pc[s])])])

\* 2. Check threat bonus.
CheckTerm(b, chk) ==
    IF chk
    THEN (IF b.turn = BLACK THEN CheckBonus ELSE -CheckBonus) * ScoreScale
    ELSE 0

\* 3. Pawn advancement.
PawnTerm(b) ==
    SumSquares([s \in Squares |->
        IF PieceType(b.pc[s]) # PAWN THEN 0
        ELSE IF PieceColor(b.pc[s]) = WHITE
             THEN (square_rank(s) - 1) * PawnRankBonus * ScoreScale
             ELSE -((6 - square_rank(s)) * PawnRankBonus * ScoreScale)])

\* 4. King safety.
KingSafetyTerm(b) ==
    LET white_king == KingSquare(b.pc, WHITE)
        black_king == KingSquare(b.pc, BLACK)
        white_king_attacks == Cardinality(attackers(b.pc, BLACK, white_king))
        black_king_attacks == Cardinality(attackers(b.pc, WHITE, black_king))
    IN (black_king_attacks - white_king_attacks) * KingAttackPenalty * ScoreScale

\* 5. Piece activity: 0.5 for every legal move from a square, signed by the
\* colour of the piece on it.  The code counts, square by square, the legal
\* moves that start there; summing over the moves is the same sum.
MobilityTerm(b, lm) ==
    SumSeq([i \in 1..Len(lm) |-> Signed(PieceColor(b.pc[lm[i].from]), 1)])

\* 6. Center control.
CenterTerm(b) ==
    SumSeq([i \in 1..Len(center_squares) |->
        LET sq == center_squares[i] IN
        IF b.pc[sq] = 0 THEN 0
        ELSE Signed(PieceColor(b.pc[sq]), CenterBonus * ScoreScale)])

\* The evaluation given the legal moves lm and chk, whether the side to move
\* is in check: mate, stalemate, else the sum of the six terms.
Evaluation(b, lm, chk) ==
    IF chk /\ lm = <<>>
    THEN (IF b.turn = WHITE THEN MateScore ELSE -MateScore) * ScoreScale
    ELSE IF ~chk /\ lm = <<>> THEN 0
    ELSE MaterialTerm(b) + CheckTerm(b, chk) + PawnTerm(b) + KingSafetyTerm(b)
         + MobilityTerm(b, lm) + CenterTerm(b)

\* ChessGame._evaluate_position(), in half points.
_evaluate_position(b) == Evaluation(b, legal_moves(b), is_check(b))

(***************************************************************************)
(* Fallback search (ChessGame._minimax and _minimax_move).  The search     *)
(* works on the session's one board, pushing and popping moves, so each    *)
(* operator returns the board it leaves behind next to its result.         *)
(***************************************************************************)
\* A variant of the loop of _minimax that breaks while the window is open.
MinimaxUpdateEager(st, r, alpha2, beta2, is_maximizing) ==
    [score |-> IF is_maximizing THEN MaxOf(st.score, r.score) ELSE MinOf(st.score, r.score),
     alpha |-> alpha2, beta |-> beta2,
     board |-> pop(r.board), broke |-> alpha2 <= beta2]

\* One pass of the loop of a _minimax node, for the move m.  The loop's
\* state st holds the running max_eval or min_eval (score), the window, the
\* board the search works on, and whether the loop has hit its break.
RECURSIVE _minimax(_, _, _, _, _)
MinimaxUpdate(st, r, alpha2, beta2, is_maximizing) ==
    [score |-> IF is_maximizing THEN MaxOf(st.score, r.score) ELSE MinOf(st.score, r.score),
     alpha |-> alpha2, beta |-> beta2,
     board |-> pop(r.board), broke |-> beta2 <= alpha2]

MinimaxScored(st, r, is_maximizing) ==
    MinimaxUpdate(st, r,
                  IF is_maximizing THEN MaxOf(st.alpha, r.score) ELSE st.alpha,
                  IF is_maximizing THEN st.beta ELSE MinOf(st.beta, r.score),
                  is_maximizing)

MinimaxStep(st, m, depth, is_maximizing) ==
    IF st.broke THEN st
    ELSE MinimaxScored(st,
                       _minimax(push(st.board, m), depth - 1, st.alpha, st.beta,
                                ~is_maximizing),
                       is_maximizing)

\* The loop over moves[lo..hi] from the state st, in order: the first half
\* of the range, then, unless the loop broke there, the second half (halves
\* keep the nesting shallow).
RECURSIVE MinimaxLoop(_, _, _, _, _, _)
MinimaxLoop(st, moves, lo, hi, depth, is_maximizing) ==
    IF lo > hi THEN st
    ELSE IF lo = hi THEN MinimaxStep(st, moves[lo], depth, is_maximizing)
    ELSE LET half == MinimaxLoop(st, moves, lo, (lo + hi) \div 2, depth, is_maximizing)
         IN IF half.broke THEN half
            ELSE MinimaxLoop(half, moves, (lo + hi) \div 2 + 1, hi, depth, is_maximizing)

\* The loop of a _minimax node over the legal moves.
MinimaxOver(b, moves, depth, alpha, beta, is_maximizing) ==
    MinimaxLoop([score |-> IF is_maximizing THEN -Infinity ELSE Infinity,
                 alpha |-> alpha, beta |-> beta, board |-> b, broke |-> FALSE],
                moves, 1, Len(moves), depth, is_maximizing)

MinimaxResult(st) == [score |-> st.score, board |-> st.board]

\* ChessGame._minimax(depth, alpha, beta, is_maximizing): [score, board].
_minimax(b, depth, alpha, beta, is_maximizing) ==
    IF depth = 0 \/ is_game_over(b)
    THEN [score |-> _evaluate_position(b), board |-> b]
    ELSE MinimaxResult(MinimaxOver(b, legal_moves(b), depth, alpha, beta, is_maximizing))

\* Python's None, for an optional string (no UCI string reads "None").
None == "None"

\* Python truthiness of an optional string.
Truthy(x) == x # None /\ x # ""

(***************************************************************************)
(* UCI notation (chess.Move.uci and chess.Move.from_uci).                  *)
(***************************************************************************)
FILE_NAMES == <<"a", "b", "c", "d", "e", "f", "g", "h">>
RANK_NAMES == <<"1", "2", "3", "4", "5", "6", "7", "8">>
PIECE_SYMBOLS == <<"p", "n", "b", "r", "q", "k">>

SQUARE_NAMES ==
    [s \in Squares |-> FILE_NAMES[square_file(s) + 1] \o RANK_NAMES[square_rank(s) + 1]]

\* move.uci().
uci(m) ==
    IF m.from = m.to THEN "0000"
    ELSE SQUARE_NAMES[m.from] \o SQUARE_NAMES[m.to]
         \o (IF m.promotion # 0 THEN PIECE_SYMBOLS[m.promotion] ELSE "")

\* SQUARE_NAMES.index(x) and PIECE_SYMBOLS.index(x); NoSquare and 0 stand for
\* the ValueError of a name that is not in the list.
SquareIndex(x) ==
    IF \E s \in Squares : SQUARE_NAMES[s] = x
    THEN CHOOSE s \in Squares : SQUARE_NAMES[s] = x
    ELSE NoSquare

SymbolIndex(x) ==
    IF \E t \in 1..6 : PIECE_SYMBOLS[t] = x
    THEN CHOOSE t \in 1..6 : PIECE_SYMBOLS[t] = x
    ELSE 0

InvalidMove == [ok |-> FALSE, move |-> Move(0, 0, 0)]

\* chess.Move.from_uci(uci): [ok, move]; ok is FALSE where the library
\* raises.  "0000" is the null move; a drop ("Q@e4") parses to a move that
\* standard chess never allows.
from_uci(u) ==
    IF u = "0000" THEN [ok |-> TRUE, move |-> Move(0, 0, 0)]
    ELSE IF Len(u) = 4 /\ SubSeq(u, 2, 2) = "@"
    THEN (IF SquareIndex(SubSeq(u, 3, 4)) # NoSquare
             /\ SubSeq(u, 1, 1) \in {"p", "n", "b", "r", "q", "k", "P", "N", "B", "R", "Q", "K"}
          THEN [ok |-> TRUE,
                move |-> Move(SquareIndex(SubSeq(u, 3, 4)), SquareIndex(SubSeq(u, 3, 4)), 0)]
          ELSE InvalidMove)
    ELSE IF Len(u) = 4 \/ Len(u) = 5
    THEN LET f == SquareIndex(SubSeq(u, 1, 2))
             t == SquareIndex(SubSeq(u, 3, 4))
             promo == IF Len(u) = 5 THEN SymbolIndex(SubSeq(u, 5, 5)) ELSE 0
         IN IF f = NoSquare \/ t = NoSquare \/ (Len(u) = 5 /\ promo = 0) \/ f = t
            THEN InvalidMove
            ELSE [ok |-> TRUE, move |-> Move(f, t, promo)]
    ELSE InvalidMove

\* `move in board.legal_moves`.
InList(lm, m) == \E i \in DOMAIN lm : lm[i] = m

\* A king's move is looked up as _from_chess960 reads it (is_pseudo_legal).
is_legal(b, m) == InList(legal_moves(b), _from_chess960(b, m))

\* Variants of _minimax_move: one lets a later move of equal score replace
\* the best, one takes only moves of positive score, one returns with its
\* best move left on the board.
MinimaxMoveUpdateLast(st, m, r, score) ==
    [best_score |-> IF score >= st.best_score THEN score ELSE st.best_score,
     best_move |-> IF score >= st.best_score THEN uci(m) ELSE st.best_move,
     board |-> pop(r.board)]

MinimaxMoveUpdatePositive(st, m, r, score) ==
    [best_score |-> IF score > st.best_score /\ score > 0 THEN score ELSE st.best_score,
     best_move |-> IF score > st.best_score /\ score > 0 THEN uci(m) ELSE st.best_move,
     board |-> pop(r.board)]

MinimaxMoveResultKept(st) ==
    [move |-> st.best_move,
     board |-> IF st.best_move = None THEN st.board
               ELSE push(st.board, from_uci(st.best_move).move)]

\* One pass of the loop of _minimax_move, for the move m: the loop's state
\* st holds best_score, best_move (as its UCI string) and the board.
MinimaxMoveUpdate(st, m, r, score) ==
    [best_score |-> IF score > st.best_score THEN score ELSE st.best_score,
     best_move |-> IF score > st.best_score THEN uci(m) ELSE st.best_move,
     board |-> pop(r.board)]

MinimaxMoveScored(st, m, r) == MinimaxMoveUpdate(st, m, r, -r.score)

MinimaxMovePushed(st, m, pushed, depth) ==
    MinimaxMoveScored(st, m, _minimax(pushed, depth - 1, -Infinity, Infinity, ~pushed.turn))

MinimaxMoveStep(st, m, depth) == MinimaxMovePushed(st, m, push(st.board, m), depth)

\* The loop over moves[lo..hi] from the state st, in order: the first half
\* of the range, then the second.  This loop has no break; the test on the
\* first half's result is always true and only makes the first half be
\* computed before the second is entered.
RECURSIVE MinimaxMoveLoop(_, _, _, _, _)
MinimaxMoveLoop(st, moves, lo, hi, depth) ==
    IF lo > hi THEN st
    ELSE IF lo = hi THEN MinimaxMoveStep(st, moves[lo], depth)
    ELSE LET half == MinimaxMoveLoop(st, moves, lo, (lo + hi) \div 2, depth)
         IN IF half.best_score >= -Infinity
            THEN MinimaxMoveLoop(half, moves, (lo + hi) \div 2 + 1, hi, depth)
            ELSE half

MinimaxMoveOver(b, moves, depth) ==
    MinimaxMoveLoop([best_score |-> -Infinity, best_move |-> None, board |-> b],
                    moves, 1, Len(moves), depth)

MinimaxMoveResult(st) == [move |-> st.best_move, board |-> st.board]

\* ChessGame._minimax_move(depth): [move, board], move a UCI string or None.
_minimax_move(b, depth) == MinimaxMoveResult(MinimaxMoveOver(b, legal_moves(b), depth))

(***************************************************************************)
(* The web session (class ChessGame of app.py).  A session is a record;    *)
(* its stockfish field tells whether the session found an engine binary.   *)
(***************************************************************************)
max_hints == 5
DefaultDifficulty == 20

\* ChessGame.__init__(game_id, difficulty, time_limit); found is what
\* _init_stockfish returns (an engine, or None when no binary exists).
ChessGame(game_id, difficulty, time_limit, found) ==
    [game_id |-> game_id, board |-> StartBoard, difficulty |-> difficulty,
     time_limit |-> time_limit, stockfish |-> found, move_count |-> 0,
     hints_used |-> 0, max_hints |-> max_hints, game_over |-> FALSE,
     winner |-> None, reason |-> None]

\* Variants of _check_game_over that the properties of the outcome must
\* tell from it: one lets the flag follow the board in both directions, the
\* other names the side to move as the winner of a checkmate.
CheckGameOverFollowing(g) == [g EXCEPT !.game_over = is_game_over(g.board)]

CheckGameOverForMover(g) ==
    IF is_game_over(g.board)
    THEN [g EXCEPT !.game_over = TRUE,
                   !.winner = IF ~is_checkmate(g.board) THEN "Draw"
                              ELSE IF g.board.turn = WHITE THEN "White" ELSE "Black",
                   !.reason = IF is_checkmate(g.board) THEN "Checkmate"
                              ELSE IF is_stalemate(g.board) THEN "Stalemate"
                              ELSE IF is_insufficient_material(g.board)
                              THEN "Insufficient material"
                              ELSE "Game ended"]
    ELSE g

\* A variant of _check_game_over that names the outcome and leaves the flag.
CheckGameOverUnflagged(g) ==
    IF is_game_over(g.board)
    THEN [g EXCEPT !.winner = IF ~is_checkmate(g.board) THEN "Draw"
                              ELSE IF g.board.turn = WHITE THEN "Black" ELSE "White",
                   !.reason = IF is_checkmate(g.board) THEN "Checkmate"
                              ELSE IF is_stalemate(g.board) THEN "Stalemate"
                              ELSE IF is_insufficient_material(g.board)
                              THEN "Insufficient material"
                              ELSE "Game ended"]
    ELSE g

\* ChessGame._check_game_over().
_check_game_over(g) ==
    IF is_game_over(g.board)
    THEN IF is_checkmate(g.board)
         THEN [g EXCEPT !.game_over = TRUE,
                        !.winner = IF g.board.turn = WHITE THEN "Black" ELSE "White",
                        !.reason = "Checkmate"]
         ELSE IF is_stalemate(g.board)
         THEN [g EXCEPT !.game_over = TRUE, !.winner = "Draw", !.reason = "Stalemate"]
         ELSE IF is_insufficient_material(g.board)
         THEN [g EXCEPT !.game_over = TRUE, !.winner = "Draw",
                        !.reason = "Insufficient material"]
         ELSE [g EXCEPT !.game_over = TRUE, !.winner = "Draw", !.reason = "Game ended"]
    ELSE g

\* Variants of make_move: one counts the moves it rejects, the other does
\* not look at the end of the game.
MakeParsedCounting(g, parsed) ==
    IF parsed.ok /\ is_legal(g.board, parsed.move)
    THEN [ok |-> TRUE,
          game |-> _check_game_over([g EXCEPT !.board = push(g.board, parsed.move),
                                              !.move_count = g.move_count + 1])]
    ELSE [ok |-> FALSE, game |-> [g EXCEPT !.move_count = g.move_count + 1]]

MakeParsedUnchecked(g, parsed) ==
    IF parsed.ok /\ is_legal(g.board, parsed.move)
    THEN [ok |-> TRUE,
          game |-> [g EXCEPT !.board = push(g.board, parsed.move),
                             !.move_count = g.move_count + 1]]
    ELSE [ok |-> FALSE, game |-> g]

\* ChessGame.make_move(move_uci): [ok, game].  A string that does not parse
\* raises inside the try block and is answered False like an illegal move.
MakeParsed(g, parsed) ==
    IF parsed.ok /\ is_legal(g.board, parsed.move)
    THEN [ok |-> TRUE,
          game |-> _check_game_over([g EXCEPT !.board = push(g.board, parsed.move),
                                              !.move_count = g.move_count + 1])]
    ELSE [ok |-> FALSE, game |-> g]

make_move(g, move_uci) == MakeParsed(g, from_uci(move_uci))

\* The depth get_best_move passes to the fallback search.
FallbackDepth == 2

\* The position after 1.e4, given directly.
OpenedBoard ==
    [push(StartBoard, Move(12, 28, 0)) EXCEPT !.move_stack = <<>>, !.stack = <<>>]

\* The fallback search from the starting position and from the position
\* after 1.e4, computed once.
StartSearch == _minimax_move(StartBoard, FallbackDepth)

ReplySearch == _minimax_move(OpenedBoard, FallbackDepth)

FallbackSearch(b) ==
    IF b = StartBoard THEN StartSearch
    ELSE IF b = OpenedBoard THEN ReplySearch
    ELSE _minimax_move(b, FallbackDepth)

\* A variant of get_best_move(depth) that searches to the depth it is given.
BestMoveToDepth(g, depth, sf) ==
    IF g.stockfish /\ ~sf.raises
    THEN [move |-> sf.move, board |-> g.board]
    ELSE _minimax_move(g.board, depth)

\* A variant of get_best_move that never asks the external engine.
BestMoveSearched(g, sf) == FallbackSearch(g.board)

\* A variant of get_best_move that answers None when the external engine
\* raises.
BestMoveOrNone(g, sf) ==
    IF g.stockfish
    THEN [move |-> IF sf.raises THEN None ELSE sf.move, board |-> g.board]
    ELSE FallbackSearch(g.board)

\* ChessGame.get_best_move(): [move, board].  sf is what the call of the
\* external engine does: it raises, or it returns a move string or None.
get_best_move(g, sf) ==
    IF g.stockfish /\ ~sf.raises
    THEN [move |-> sf.move, board |-> g.board]
    ELSE FallbackSearch(g.board)

\* A variant of get_engine_move that answers the engine's move whether or
\* not make_move took it.
EngineMoveAnswered(best, searched, made) == [move |-> best.move, game |-> made.game]

\* ChessGame.get_best_move(depth) called with a depth: the parameter is not
\* used, the fallback searches to FallbackDepth.
get_best_move_to(g, depth, sf) == get_best_move(g, sf)

\* A variant of get_engine_move that counts the engine's move itself, after
\* make_move has counted it.
EngineMoveCountedTwice(best, searched, made) ==
    IF Truthy(best.move) /\ made.ok
    THEN [move |-> best.move, game |-> [made.game EXCEPT !.move_count = @ + 1]]
    ELSE [move |-> None, game |-> searched]

\* ChessGame.get_engine_move(): [move, game]; best is what get_best_move
\* returned and made what make_move did with it.
EngineMoveMade(best, searched, made) ==
    IF Truthy(best.move) /\ made.ok
    THEN [move |-> best.move, game |-> made.game]
    ELSE [move |-> None, game |-> searched]

EngineMoveOn(best, searched) ==
    EngineMoveMade(best, searched, make_move(searched, best.move))

EngineMoveWith(g, best) == EngineMoveOn(best, [g EXCEPT !.board = best.board])

get_engine_move(g, sf) == EngineMoveWith(g, get_best_move(g, sf))

\* A variant of get_hint that plays the move it suggests.
HintPlayed(counted, best) ==
    [move |-> best.move,
     game |-> make_move([counted EXCEPT !.board = best.board], best.move).game]

\* ChessGame.get_hint(): [move, game].
HintWith(counted, best) == [move |-> best.move, game |-> [counted EXCEPT !.board = best.board]]

HintCounted(counted, sf) == HintWith(counted, get_best_move(counted, sf))

get_hint(g, sf) ==
    IF g.hints_used >= g.max_hints
    THEN [move |-> None, game |-> g]
    ELSE HintCounted([g EXCEPT !.hints_used = g.hints_used + 1], sf)

\* ChessGame.to_dict(), without the renderings of the position itself (fen,
\* pgn, is_check, legal_moves) and the two settings.
to_dict(g) ==
    [game_id |-> g.game_id,
     turn |-> IF g.board.turn = WHITE THEN "White" ELSE "Black",
     move_count |-> g.move_count, hints_used |-> g.hints_used,
     max_hints |-> g.max_hints, game_over |-> g.game_over,
     winner |-> g.winner, reason |-> g.reason]

(***************************************************************************)
(* What the clients and the external engine send.  The players follow      *)
(* scripted games or send a stray move string; the external engine follows *)
(* the scripts too, answers nothing, answers an illegal move, or fails.    *)
(***************************************************************************)
MaxGames == 1
MaxSearchPly == 1
ShuffleRounds == 4

\* 1.f3 e5 2.g4 Qh4#.
FoolsMate == <<"f2f3", "e7e5", "g2g4", "d8h4">>

OpenGame == <<"e2e4", "e7e5">>

\* Both sides move a knight out and back: the starting position returns
\* after every round.
KnightShuffle == <<"g1f3", "g8f6", "f3g1", "f6g8">>

RECURSIVE Rounds(_, _)
Rounds(seq, n) == IF n = 0 THEN <<>> ELSE seq \o Rounds(seq, n - 1)

RepetitionGame == Rounds(KnightShuffle, ShuffleRounds) \o FoolsMate

\* Sam Loyd's stalemate in ten moves.
StalemateGame ==
    <<"e2e3", "a7a5", "d1h5", "a8a6", "h5a5", "h7h5", "h2h4", "a6h6", "a5c7", "f7f6",
      "c7d7", "e8f7", "d7b7", "d8d3", "b7b8", "d3h7", "b8c8", "f7g6", "c8e6">>

\* The games the web clients follow, and the games played on the desktop.
Lines == {FoolsMate, OpenGame, RepetitionGame, StalemateGame}
GuiLines == {FoolsMate, OpenGame}

\* The moves played so far, as UCI strings.
Played(b) == [i \in 1..Len(b.move_stack) |-> uci(b.move_stack[i])]

\* The next moves of the lines that begin with the moves `played`.
NextMoves(lines, played, n) ==
    { line[n + 1] : line \in { l \in lines : Len(l) > n /\ SubSeq(l, 1, n) = played } }

\* The scripted moves that continue the game played so far.
Continuations(lines, b) == NextMoves(lines, Played(b), Len(b.move_stack))

\* Positions late in a game: the two kings alone; a king stalemated in the
\* corner by king and bishop; the starting array with the clock of the
\* seventy-five-move rule run out.
Position(pieces, turn, hmc) ==
    [StartBoard EXCEPT !.pc = [sq \in Squares |-> IF sq \in DOMAIN pieces THEN pieces[sq] ELSE 0],
                       !.turn = turn, !.castling = {}, !.hmc = hmc, !.fmn = 100]

BareKings == Position((4 :> KING) @@ (60 :> KING + 8), WHITE, 0)

CorneredKing == Position((41 :> KING) @@ (50 :> BISHOP) @@ (56 :> KING + 8), BLACK, 3)

ClockRunOut == [StartBoard EXCEPT !.castling = {}, !.hmc = SeventyFiveMoveClock, !.fmn = 100]

\* More positions late in a game.  White mates in one (Ra8), and the
\* position after it; Black mates in one (Ra1); queen against rook, either
\* side to move and able to capture; a pawn ending, either side to move.
MateInOne == Position((46 :> KING) @@ (0 :> ROOK) @@ (63 :> KING + 8), WHITE, 10)

Mated == Position((46 :> KING) @@ (56 :> ROOK) @@ (63 :> KING + 8), BLACK, 11)

BlackMateInOne == Position((22 :> KING + 8) @@ (56 :> ROOK + 8) @@ (7 :> KING), BLACK, 10)

QueenAndRook(turn) ==
    Position((2 :> KING) @@ (3 :> QUEEN) @@ (63 :> KING + 8) @@ (59 :> ROOK + 8), turn, 4)

\* King and pawn against king and pawn, the white king on square king.
KingAndPawn(king, turn) ==
    Position((king :> KING) @@ (28 :> PAWN) @@ (52 :> KING + 8) @@ (43 :> PAWN + 8), turn, 0)

PawnEnding(turn) == KingAndPawn(12, turn)

PawnEndings ==
    { KingAndPawn(king, turn) : king \in {2, 3, 5, 9, 10, 11, 13, 14, 17, 18, 19},
                                turn \in BOOLEAN }

\* The positions the fallback search is followed from.
SearchPositions ==
    {StartBoard, OpenedBoard, BareKings, CorneredKing, MateInOne, Mated, BlackMateInOne,
     QueenAndRook(WHITE), QueenAndRook(BLACK), PawnEnding(WHITE), PawnEnding(BLACK)}
    \cup PawnEndings

\* The search is followed on boards with fewer moves than this on them, and
\* so many hints are asked of it.
MaxAutoPlies == 1
MaxSearchHints == 1

\* Missing, empty, unparsable, the null move, and a move that is legal only
\* where a script plays it.
StrayMoves == {None, "", "e9e4", "0000", "d8h4"}

MoveInputs(g) == Continuations(Lines, g.board) \cup StrayMoves

\* What a call of the external engine can do on board b.
NoReply == [raises |-> FALSE, move |-> None]
EngineFailure == [raises |-> TRUE, move |-> None]

EngineReplies(lines, b) ==
    {NoReply, EngineFailure, [raises |-> FALSE, move |-> "e2e5"]}
    \cup { [raises |-> FALSE, move |-> u] : u \in Continuations(lines, b) }

\* The fallback search is followed only where it is short: in the first
\* plies of a game, and on a position without legal moves.
SearchAllowed(g) == g.move_count < MaxSearchPly \/ legal_moves(g.board) = <<>>

\* The engine outcomes considered for a request on session g; allowed tells
\* whether the fallback search is followed there.
OutcomesWhen(g, allowed) ==
    IF g.stockfish
    THEN { sf \in EngineReplies(Lines, g.board) : sf.raises => allowed }
    ELSE IF allowed THEN {EngineFailure} ELSE {}

EngineOutcomes(g) == OutcomesWhen(g, SearchAllowed(g))

(***************************************************************************)
(* The command-line engine (class ChessEngine of chess_engine.py): where   *)
(* its moves come from.  random.choice makes the fallback a choice among   *)
(* the legal moves, so the operators give the set of the moves a call can  *)
(* return.                                                                 *)
(***************************************************************************)
\* ChessEngine._get_fallback_move().
_get_fallback_move(b) ==
    IF legal_moves(b) = <<>> THEN {None}
    ELSE { uci(legal_moves(b)[i]) : i \in DOMAIN legal_moves(b) }

\* ChessEngine.get_best_move(); found is whether _init_stockfish found an
\* engine and sf what its call does.
ChessEngine_get_best_move(b, found, sf) ==
    IF ~found THEN _get_fallback_move(b)
    ELSE IF sf.raises THEN _get_fallback_move(b)
    ELSE {sf.move}

\* Standard algebraic notation (board.parse_san).  SAN_REGEX reads, from the
\* left, an optional piece letter, file and rank of the origin, "-" or "x",
\* the target square, an optional promotion ("=Q", "q") and "+" or "#".
\* Every part but the square is a single character of its own class, so
\* that the string is taken apart from its end.
Char(s, i) == SubSeq(s, i, i)
Last(s) == IF Len(s) = 0 THEN "" ELSE Char(s, Len(s))
ButLast(s) == SubSeq(s, 1, Len(s) - 1)
StripLast(s, chars) == IF Last(s) \in chars THEN ButLast(s) ELSE s
TakeLast(s, chars) == IF Last(s) \in chars THEN Last(s) ELSE ""

SanPieceLetters == {"N", "B", "K", "R", "Q"}
SanPromotionLetters == {"n", "b", "r", "q", "k", "N", "B", "R", "Q", "K"}
FileLetters == { FILE_NAMES[i] : i \in 1..8 }
RankDigits == { RANK_NAMES[i] : i \in 1..8 }

\* str.lower() of a piece letter.
Lower(c) ==
    IF c = "N" THEN "n" ELSE IF c = "B" THEN "b" ELSE IF c = "R" THEN "r"
    ELSE IF c = "Q" THEN "q" ELSE IF c = "K" THEN "k" ELSE c

\* SAN_REGEX.match(san): the groups, "" for a group that is absent; ok is
\* FALSE where the string does not match.
SanMatch(san) ==
    LET unchecked == StripLast(san, {"+", "#"})
        promo == TakeLast(unchecked, SanPromotionLetters)
        unpromoted == IF promo = "" THEN unchecked ELSE StripLast(ButLast(unchecked), {"="})
        target == IF Len(unpromoted) >= 2
                  THEN SubSeq(unpromoted, Len(unpromoted) - 1, Len(unpromoted)) ELSE ""
        origin == StripLast(SubSeq(unpromoted, 1, Len(unpromoted) - 2), {"-", "x"})
        rank == TakeLast(origin, RankDigits)
        unranked == StripLast(origin, RankDigits)
        file == TakeLast(unranked, FileLetters)
        unfiled == StripLast(unranked, FileLetters)
        piece == TakeLast(unfiled, SanPieceLetters)
    IN [ok |-> SquareIndex(target) # NoSquare /\ StripLast(unfiled, SanPieceLetters) = "",
        piece |-> piece, file |-> file, rank |-> rank, target |-> target, promotion |-> promo]

\* board.find_move(from_square, to_square, promotion): a pawn that reaches
\* the last rank promotes to a queen if nothing else is asked for.
find_move(b, from_square, to_square, promotion) ==
    LET asked == IF /\ promotion = 0
                    /\ PieceType(b.pc[from_square]) = PAWN
                    /\ square_rank(to_square) \in {0, 7}
                 THEN QUEEN ELSE promotion
        move == IF asked = 0 THEN _from_chess960(b, Move(from_square, to_square, 0))
                ELSE Move(from_square, to_square, asked)
    IN IF from_square # to_square /\ is_legal(b, move) THEN [ok |-> TRUE, move |-> move]
       ELSE InvalidMove

\* The castling moves among the legal moves, by side.
CastlingMoves(b, a_side) ==
    SelectSeq(legal_moves(b),
              LAMBDA m : is_castling(b, m) /\ (square_file(m.to) < square_file(m.from)) = a_side)

\* The legal moves that fit the groups of a match: to the target square,
\* with the promotion, from the file and rank named, of the piece named or
\* else of a pawn (which captures only if its file is named).
SanFits(b, match, m) ==
    /\ m.to = SquareIndex(match.target)
    /\ ~is_castling(b, m)
    /\ m.promotion = (IF match.promotion = "" THEN 0 ELSE SymbolIndex(Lower(match.promotion)))
    /\ match.file # "" => FILE_NAMES[square_file(m.from) + 1] = match.file
    /\ match.rank # "" => RANK_NAMES[square_rank(m.from) + 1] = match.rank
    /\ IF match.piece # ""
       THEN PieceType(b.pc[m.from]) = SymbolIndex(Lower(match.piece))
       ELSE /\ PieceType(b.pc[m.from]) = PAWN
            /\ match.file = "" => square_file(m.from) = square_file(m.to)

\* board.parse_san(san): [ok, move]; ok is FALSE where the library raises
\* (each of its errors is a ValueError).
SanMatched(b, match) ==
    LET fit == SelectSeq(legal_moves(b), LAMBDA m : SanFits(b, match, m))
        promotion == IF match.promotion = "" THEN 0 ELSE SymbolIndex(Lower(match.promotion))
        found == find_move(b, SquareIndex(match.file \o match.rank),
                           SquareIndex(match.target), promotion)
    IN IF match.piece = "" /\ match.file # "" /\ match.rank # ""
       THEN (IF found.ok /\ found.move.promotion = promotion THEN found ELSE InvalidMove)
       ELSE IF Len(fit) = 1 THEN [ok |-> TRUE, move |-> fit[1]]
       ELSE InvalidMove

parse_san(b, san) ==
    IF san \in {"O-O", "O-O+", "O-O#", "0-0", "0-0+", "0-0#"}
    THEN (IF CastlingMoves(b, FALSE) # <<>>
          THEN [ok |-> TRUE, move |-> CastlingMoves(b, FALSE)[1]] ELSE InvalidMove)
    ELSE IF san \in {"O-O-O", "O-O-O+", "O-O-O#", "0-0-0", "0-0-0+", "0-0-0#"}
    THEN (IF CastlingMoves(b, TRUE) # <<>>
          THEN [ok |-> TRUE, move |-> CastlingMoves(b, TRUE)[1]] ELSE InvalidMove)
    ELSE IF SanMatch(san).ok THEN SanMatched(b, SanMatch(san))
    ELSE IF san \in {"--", "Z0", "0000", "@@@@"} THEN [ok |-> TRUE, move |-> Move(0, 0, 0)]
    ELSE InvalidMove

\* ChessEngine.__init__(): the session of the command-line program.
ChessEngine(found) == [board |-> StartBoard, stockfish |-> found, move_history |-> <<>>]

\* ChessEngine.reset().
reset(e) == [e EXCEPT !.board = StartBoard, !.move_history = <<>>]

\* ChessEngine.make_move(move_str): [ok, engine].  The string is read as UCI
\* first and the string itself is kept; if that fails it is read as SAN and
\* the UCI string of the move found is kept.
MakeMoveUci(e, parsed, move_str) ==
    IF parsed.ok /\ is_legal(e.board, parsed.move)
    THEN [ok |-> TRUE,
          engine |-> [e EXCEPT !.board = push(e.board, parsed.move),
                               !.move_history = Append(@, move_str)]]
    ELSE [ok |-> FALSE, engine |-> e]

MakeMoveSan(e, parsed) ==
    IF parsed.ok /\ is_legal(e.board, parsed.move)
    THEN [ok |-> TRUE,
          engine |-> [e EXCEPT !.board = push(e.board, parsed.move),
                               !.move_history = Append(@, uci(parsed.move))]]
    ELSE [ok |-> FALSE, engine |-> e]

MakeMoveRead(e, first, move_str) ==
    IF first.ok THEN first ELSE MakeMoveSan(e, parse_san(e.board, move_str))

ChessEngine_make_move(e, move_str) ==
    MakeMoveRead(e, MakeMoveUci(e, from_uci(move_str), move_str), move_str)

\* ChessEngine.engine_move(); best_move is what get_best_move returned.
engine_move(e, best_move) ==
    IF is_game_over(e.board) THEN e
    ELSE IF Truthy(best_move) THEN ChessEngine_make_move(e, best_move).engine
    ELSE e

\* ChessEngine.undo_move().
undo_move(e) ==
    IF Len(e.move_history) > 0
    THEN [e EXCEPT !.board = pop(e.board), !.move_history = ButLast(e.move_history)]
    ELSE e

(***************************************************************************)
(* The desktop program (class ChessGUI of chess_gui.py).  The program is a  *)
(* record: the fields of the ChessGUI object, the worker threads started   *)
(* by _engine_move (workers) and the callbacks handed to root.after that   *)
(* have not run yet (pending).  time_control is the value of the radio     *)
(* buttons (time_control_var); clock_job_id names the scheduled callback   *)
(* tick of the clock, or is None.                                          *)
(***************************************************************************)
max_hints_per_game == 5
NewGameDelay == 500
TickMs == 100
MinuteMs == 60 * 1000

\* Python's None, for an optional clock (no clock reads below 0).
NoTime == -1

\* ChessGUI.TIME_PRESETS, the time of each side in milliseconds.
TIME_PRESETS ==
    ("no_limit" :> NoTime) @@ ("1" :> 1 * MinuteMs) @@ ("3" :> 3 * MinuteMs) @@
    ("5" :> 5 * MinuteMs) @@ ("10" :> 10 * MinuteMs) @@ ("15" :> 15 * MinuteMs)

\* ChessGUI.__init__(root); found is whether _init_stockfish found an engine.
ChessGUI(found) ==
    [board |-> StartBoard, selected_square |-> NoSquare, valid_moves |-> <<>>,
     player_color |-> WHITE, engine_thinking |-> FALSE, stockfish |-> found,
     game_in_progress |-> FALSE, max_hints_per_game |-> max_hints_per_game,
     hints_used |-> 0, workers |-> <<>>, pending |-> <<>>,
     time_control |-> "no_limit", white_time_ms |-> NoTime, black_time_ms |-> NoTime,
     clock_job_id |-> None]

RemoveAt(seq, i) == SubSeq(seq, 1, i - 1) \o SubSeq(seq, i + 1, Len(seq))

\* A callback handed to root.after.  position is the board the move of an
\* _apply_engine_move callback was computed for; the callback itself holds
\* the move only.
Callback(fn, move, delay) ==
    [fn |-> fn, move |-> move, delay |-> delay, position |-> StartBoard]

\* A worker thread that has not read the position yet.
Started == [stage |-> "started", board |-> StartBoard]

\* ChessGUI._stop_clock(): cancel the scheduled tick.
_stop_clock(g) == [g EXCEPT !.clock_job_id = None]

\* ChessGUI._start_clock_for_current_player(): schedule tick, if a time
\* control is selected and a game is in progress.
_start_clock_for_current_player(g) ==
    IF g.time_control = "no_limit" \/ ~g.game_in_progress THEN _stop_clock(g)
    ELSE [_stop_clock(g) EXCEPT !.clock_job_id = "tick"]

\* ChessGUI._end_game_on_timeout(winner, message).
_end_game_on_timeout(g) == _stop_clock([g EXCEPT !.game_in_progress = FALSE])

\* The callback tick of _start_clock_for_current_player: take TickMs from the
\* clock of the side to move, end the game at 0, else schedule tick again.
\* Without a game in progress it does nothing (the handlers that end a game
\* cancel the callback, so that it does not run then).
TickedDown(g, left) ==
    IF g.board.turn = WHITE THEN [g EXCEPT !.white_time_ms = left]
    ELSE [g EXCEPT !.black_time_ms = left]

ClockOf(g) == IF g.board.turn = WHITE THEN g.white_time_ms ELSE g.black_time_ms

tick(g) ==
    IF ~g.game_in_progress THEN g
    ELSE IF ClockOf(g) = NoTime THEN g
    ELSE IF ClockOf(g) - TickMs <= 0 THEN _end_game_on_timeout(TickedDown(g, 0))
    ELSE TickedDown(g, ClockOf(g) - TickMs)

\* ChessGUI._show_game_over().
_show_game_over(g) == _stop_clock([g EXCEPT !.game_in_progress = FALSE])

\* ChessGUI._update_after_move().
_update_after_move(g) ==
    IF is_game_over(g.board) THEN _show_game_over(_start_clock_for_current_player(g))
    ELSE _start_clock_for_current_player(g)

\* ChessGUI._engine_move(): set the busy flag and start the thread think.
_engine_move(g) ==
    IF ~g.stockfish THEN g
    ELSE [g EXCEPT !.engine_thinking = TRUE, !.workers = Append(@, Started)]

\* ChessGUI._make_move(from_sq, to_sq): [ok, board]; a pawn that reaches the
\* last rank promotes to a queen.
MakeMoveAmong(b, lm, from_sq, to_sq) ==
    IF /\ PieceType(b.pc[from_sq]) = PAWN
       /\ square_rank(to_sq) = (IF PieceColor(b.pc[from_sq]) THEN 7 ELSE 0)
       /\ InList(lm, Move(from_sq, to_sq, QUEEN))
    THEN [ok |-> TRUE, board |-> push(b, Move(from_sq, to_sq, QUEEN))]
    ELSE IF InList(lm, Move(from_sq, to_sq, 0))
    THEN [ok |-> TRUE, board |-> push(b, Move(from_sq, to_sq, 0))]
    ELSE [ok |-> FALSE, board |-> b]

_make_move(b, from_sq, to_sq) == MakeMoveAmong(b, legal_moves(b), from_sq, to_sq)

\* The target squares of the moves of a list that start on a square.
TargetsFrom(lm, square) ==
    [i \in DOMAIN SelectSeq(lm, LAMBDA m : m.from = square) |->
        SelectSeq(lm, LAMBDA m : m.from = square)[i].to]

\* ChessGUI._on_click(event), for a click on a square of the board.
PlayerMoved(g) == IF ~is_game_over(g.board) THEN _engine_move(g) ELSE g

ClickMove(g, made) ==
    IF made.ok THEN PlayerMoved(_update_after_move([g EXCEPT !.board = made.board])) ELSE g

ClickTarget(g, square) ==
    IF InList(g.valid_moves, square)
    THEN ClickMove(g, _make_move(g.board, g.selected_square, square))
    ELSE g

_on_click(g, square) ==
    IF g.engine_thinking THEN g
    ELSE IF is_game_over(g.board) THEN g
    ELSE IF g.board.turn # g.player_color THEN g
    ELSE IF g.selected_square = NoSquare
    THEN (IF OwnAt(g.board, square)
          THEN [g EXCEPT !.selected_square = square,
                         !.valid_moves = TargetsFrom(legal_moves(g.board), square)]
          ELSE g)
    ELSE [ClickTarget(g, square) EXCEPT !.selected_square = NoSquare, !.valid_moves = <<>>]

\* ChessGUI._apply_engine_move(move_uci).
ApplyParsed(g, parsed) ==
    IF parsed.ok /\ is_legal(g.board, parsed.move)
    THEN _update_after_move([g EXCEPT !.board = push(g.board, parsed.move)])
    ELSE g

_apply_engine_move(g, move_uci) ==
    [ApplyParsed(g, from_uci(move_uci)) EXCEPT !.engine_thinking = FALSE]

\* ChessGUI._new_game(); result is the answer to "Play as White?".
TotalTime(g) ==
    IF TIME_PRESETS[g.time_control] # NoTime /\ TIME_PRESETS[g.time_control] # 0
    THEN TIME_PRESETS[g.time_control]
    ELSE NoTime

StartGame(g) ==
    IF g.player_color = BLACK
    THEN [g EXCEPT !.pending = Append(@, Callback("_engine_move", None, NewGameDelay))]
    ELSE g

_new_game(g, result) ==
    IF result = "Cancel" THEN g
    ELSE StartGame([_stop_clock(g) EXCEPT
                        !.board = StartBoard, !.selected_square = NoSquare,
                        !.valid_moves = <<>>, !.player_color = (result = "Yes"),
                        !.game_in_progress = TRUE, !.hints_used = 0,
                        !.white_time_ms = TotalTime(g), !.black_time_ms = TotalTime(g)])

\* ChessGUI._flip_board().
_flip_board(g) == [g EXCEPT !.player_color = ~g.player_color]

\* ChessGUI._undo_move(): take back two moves, or the only one.
Undone(b) ==
    IF Len(b.move_stack) >= 2 THEN pop(pop(b))
    ELSE IF Len(b.move_stack) = 1 THEN pop(b)
    ELSE b

_undo_move(g) ==
    _update_after_move([g EXCEPT !.board = Undone(g.board), !.selected_square = NoSquare,
                                 !.valid_moves = <<>>])

\* A variant of _get_hint without the limit.
GetHintUnlimited(g, sf) ==
    IF ~g.stockfish THEN g
    ELSE IF is_game_over(g.board) THEN g
    ELSE IF ~sf.raises /\ Truthy(sf.move) THEN [g EXCEPT !.hints_used = g.hints_used + 1]
    ELSE g

\* ChessGUI._get_hint(); sf is what the call of the external engine does.
_get_hint(g, sf) ==
    IF ~g.stockfish THEN g
    ELSE IF is_game_over(g.board) THEN g
    ELSE IF g.hints_used >= g.max_hints_per_game THEN g
    ELSE IF ~sf.raises /\ Truthy(sf.move) THEN [g EXCEPT !.hints_used = g.hints_used + 1]
    ELSE g

\* The thread think of _engine_move: it hands the position to the engine ...
ThinkRead(g, i) == [g EXCEPT !.workers[i] = [stage |-> "thinking", board |-> g.board]]

\* ... and when the engine call sf ends it schedules the move (or, after an
\* exception, a status line) and clears the busy flag.
ThinkScheduled(pending, sf, read) ==
    IF sf.raises THEN Append(pending, Callback("_update_status", None, 0))
    ELSE IF Truthy(sf.move)
    THEN Append(pending, [Callback("_apply_engine_move", sf.move, 0) EXCEPT !.position = read])
    ELSE pending

\* A variant of think without the finally clause: the busy flag is left to
\* _apply_engine_move.
ThinkReturnBusy(g, i, sf) ==
    [g EXCEPT !.workers = RemoveAt(g.workers, i),
              !.pending = ThinkScheduled(g.pending, sf, g.workers[i].board)]

ThinkReturn(g, i, sf) ==
    [g EXCEPT !.workers = RemoveAt(g.workers, i),
              !.pending = ThinkScheduled(g.pending, sf, g.workers[i].board),
              !.engine_thinking = FALSE]

\* The main loop runs the callback cb.
RunCallback(g, cb) ==
    IF cb.fn = "_apply_engine_move" THEN _apply_engine_move(g, cb.move)
    ELSE IF cb.fn = "_engine_move" THEN _engine_move(g)
    ELSE g

\* The squares the player clicks: those of the scripted moves.
ClickSquares(b) ==
    UNION { {from_uci(u).move.from, from_uci(u).move.to} : u \in Continuations(GuiLines, b) }

\* The engine jobs (threads and callbacks) that may be outstanding at once.
MaxPending == 1

(***************************************************************************)
(* State.  program tells which of the programs runs: the web application   *)
(* (games, game_counter, and resp, the answer to the last request), the    *)
(* desktop program (gui) or the command-line program (chess_engine).  The  *)
(* requests are those of the web application, the events those of the      *)
(* desktop program.  requests holds the threads of the web server that are *)
(* inside a route; it stays empty where the requests are answered one      *)
(* after the other.                                                        *)
(***************************************************************************)
VARIABLES program, games, game_counter, resp, gui, requests, chess_engine

vars == <<program, games, game_counter, resp, gui, requests, chess_engine>>
web_vars == <<games, game_counter, resp>>

GameIds == 1..(MaxGames + 1)

\* The body of an answer without the key "game".
NoGame == [error |-> TRUE]

\* The answer to a request: op and game_id name the route and the session,
\* sent is the move string sent, status the HTTP status, hint the hint
\* answered and game the session state answered.
Response(op, game_id, sent, status, hint, dict) ==
    [op |-> op, game_id |-> game_id, sent |-> sent, status |-> status,
     hint |-> hint, game |-> dict]

Start(found) ==
    /\ games = <<>>
    /\ game_counter = 0
    /\ resp = Response("start", 0, None, 200, None, NoGame)
    /\ gui = ChessGUI(found)
    /\ requests = <<>>
    /\ chess_engine = ChessEngine(found)

Init == program = "web" /\ Start(FALSE)

\* POST /api/new-game; found is what _init_stockfish returns for the session.
new_game(found) ==
    /\ program = "web"
    /\ game_counter' = game_counter + 1
    /\ games' = [k \in DOMAIN games \cup {game_counter + 1} |->
                    IF k = game_counter + 1
                    THEN ChessGame(game_counter + 1, DefaultDifficulty, None, found)
                    ELSE games[k]]
    /\ resp' = Response("new_game", game_counter + 1, None, 200, None,
                        to_dict(games'[game_counter + 1]))
    /\ UNCHANGED <<program, gui, requests, chess_engine>>

\* No more than MaxGames sessions are created.
api_new_game(found) == game_counter < MaxGames /\ new_game(found)

\* GET /api/game/<game_id>.
api_get_game(game_id) ==
    /\ program = "web"
    /\ resp' = IF game_id \in DOMAIN games
               THEN Response("get_game", game_id, None, 200, None, to_dict(games[game_id]))
               ELSE Response("get_game", game_id, None, 404, None, NoGame)
    /\ UNCHANGED <<program, games, game_counter, gui, requests, chess_engine>>

\* A variant of the route that stores the moved session under the newest
\* identifier.
UserMovedLatest(game_id, move_uci, made) ==
    /\ games' = [games EXCEPT ![game_counter] = made.game]
    /\ resp' = IF made.ok
               THEN Response("move", game_id, move_uci, 200, None, to_dict(made.game))
               ELSE Response("move", game_id, move_uci, 400, None, NoGame)

\* POST /api/move/<game_id> with a player's move; made is what make_move
\* answered.
UserMoved(game_id, move_uci, made) ==
    /\ games' = [games EXCEPT ![game_id] = made.game]
    /\ resp' = IF made.ok
               THEN Response("move", game_id, move_uci, 200, None, to_dict(made.game))
               ELSE Response("move", game_id, move_uci, 400, None, NoGame)

api_move(game_id, move_uci) ==
    /\ program = "web"
    /\ IF game_id \notin DOMAIN games
       THEN resp' = Response("move", game_id, move_uci, 404, None, NoGame) /\ UNCHANGED games
       ELSE IF ~Truthy(move_uci)
       THEN resp' = Response("move", game_id, move_uci, 400, None, NoGame) /\ UNCHANGED games
       ELSE UserMoved(game_id, move_uci, make_move(games[game_id], move_uci))
    /\ UNCHANGED <<program, game_counter, gui, requests, chess_engine>>

\* POST /api/move/<game_id> with the move "auto"; engine is what
\* get_engine_move answered.
EngineMoved(game_id, engine) ==
    /\ games' = [games EXCEPT ![game_id] = engine.game]
    /\ resp' = IF Truthy(engine.move)
               THEN Response("auto", game_id, "auto", 200, None, to_dict(engine.game))
               ELSE Response("auto", game_id, "auto", 400, None, NoGame)

api_move_auto(game_id, sf) ==
    /\ program = "web"
    /\ IF game_id \notin DOMAIN games
       THEN resp' = Response("auto", game_id, "auto", 404, None, NoGame) /\ UNCHANGED games
       ELSE IF games[game_id].game_over
       THEN resp' = Response("auto", game_id, "auto", 400, None, NoGame) /\ UNCHANGED games
       ELSE EngineMoved(game_id, get_engine_move(games[game_id], sf))
    /\ UNCHANGED <<program, game_counter, gui, requests, chess_engine>>

\* GET /api/hint/<game_id>; hint is what get_hint answered.
Hinted(game_id, hint) ==
    /\ games' = [games EXCEPT ![game_id] = hint.game]
    /\ resp' = IF hint.move = None
               THEN Response("hint", game_id, None, 400, None, NoGame)
               ELSE Response("hint", game_id, None, 200, hint.move, NoGame)

api_hint(game_id, sf) ==
    /\ program = "web"
    /\ IF game_id \notin DOMAIN games
       THEN resp' = Response("hint", game_id, None, 404, None, NoGame) /\ UNCHANGED games
       ELSE Hinted(game_id, get_hint(games[game_id], sf))
    /\ UNCHANGED <<program, game_counter, gui, requests, chess_engine>>

\* The requests considered in a state: the ids of the sessions and one
\* unknown id; the moves and the engine outcomes considered for a session.
MovesFor(game_id) ==
    IF game_id \in DOMAIN games THEN MoveInputs(games[game_id]) ELSE {"e2e4"}

OutcomesFor(game_id) ==
    IF game_id \in DOMAIN games THEN EngineOutcomes(games[game_id]) ELSE {NoReply}

Next ==
    \/ \E found \in BOOLEAN : api_new_game(found)
    \/ \E game_id \in GameIds : api_get_game(game_id)
    \/ \E game_id \in GameIds : \E move_uci \in MovesFor(game_id) : api_move(game_id, move_uci)
    \/ \E game_id \in GameIds : \E sf \in OutcomesFor(game_id) : api_move_auto(game_id, sf)
    \/ \E game_id \in GameIds : \E sf \in OutcomesFor(game_id) : api_hint(game_id, sf)

Spec == Init /\ [][Next]_vars

(***************************************************************************)
(* The events of the desktop program.  The handlers run one at a time on   *)
(* the main loop; the steps of the worker threads come between them.       *)
(***************************************************************************)
\* The step to g2 is taken if it leaves no more than MaxPending engine jobs.
GuiStep(g2) ==
    /\ program = "gui"
    /\ Len(g2.workers) + Len(g2.pending) <= MaxPending
    /\ gui' = g2
    /\ UNCHANGED <<program, games, game_counter, resp, requests, chess_engine>>

Click(square) == GuiStep(_on_click(gui, square))

NewGame(result) == GuiStep(_new_game(gui, result))

FlipBoard == GuiStep(_flip_board(gui))

UndoMove == GuiStep(_undo_move(gui))

GetHint(sf) == GuiStep(_get_hint(gui, sf))

\* A worker thread reads the position, then gets the engine's answer to it.
WorkerRead(i) ==
    /\ gui.workers[i].stage = "started"
    /\ GuiStep(ThinkRead(gui, i))

WorkerReturn(i, sf) ==
    /\ gui.workers[i].stage = "thinking"
    /\ GuiStep(ThinkReturn(gui, i, sf))

\* The main loop runs a callback whose time has come: the first of those
\* scheduled without delay, or one scheduled with a delay.
MainLoop(i) ==
    /\ gui.pending[i].delay > 0 \/ \A j \in 1..(i - 1) : gui.pending[j].delay > 0
    /\ GuiStep(RunCallback([gui EXCEPT !.pending = RemoveAt(gui.pending, i)], gui.pending[i]))

HintReplies == IF gui.stockfish THEN EngineReplies(GuiLines, gui.board) ELSE {NoReply}

NextGui ==
    \/ \E square \in ClickSquares(gui.board) : Click(square)
    \/ \E result \in {"Yes", "No", "Cancel"} : NewGame(result)
    \/ FlipBoard
    \/ UndoMove
    \/ \E sf \in HintReplies : GetHint(sf)
    \/ \E i \in DOMAIN gui.workers : WorkerRead(i)
    \/ \E i \in DOMAIN gui.workers : \E sf \in EngineReplies(GuiLines, gui.workers[i].board) :
          WorkerReturn(i, sf)
    \/ \E i \in DOMAIN gui.pending : MainLoop(i)

\* The desktop program by itself.  A thread that was started runs on, and
\* the call of the engine returns or raises: the steps of the threads are
\* taken sooner or later.
InitGui == program = "gui" /\ \E found \in BOOLEAN : Start(found)

WorkerStep ==
    \E i \in DOMAIN gui.workers :
        \/ WorkerRead(i)
        \/ \E sf \in EngineReplies(GuiLines, gui.workers[i].board) : WorkerReturn(i, sf)

SpecGui == InitGui /\ [][NextGui]_vars /\ WF_vars(WorkerStep)

\* Either program, started.
InitApps ==
    \/ program = "web" /\ Start(FALSE)
    \/ program = "gui" /\ \E found \in BOOLEAN : Start(found)

NextApps == Next \/ NextGui

SpecApps == InitApps /\ [][NextApps]_vars

(***************************************************************************)
(* The fallback search by itself: a web session without an external        *)
(* engine that has come to one of the positions above, asked for hints and *)
(* engine moves.                                                           *)
(***************************************************************************)
\* A session without engine that has come to board b.
SessionAt(b) ==
    _check_game_over([ChessGame(1, DefaultDifficulty, None, FALSE)
                         EXCEPT !.board = b, !.move_count = Len(b.move_stack)])

InitSearch ==
    /\ program = "web"
    /\ \E b \in SearchPositions : games = <<SessionAt(b)>>
    /\ game_counter = 1
    /\ resp = Response("start", 0, None, 200, None, NoGame)
    /\ gui = ChessGUI(FALSE)
    /\ requests = <<>>
    /\ chess_engine = ChessEngine(FALSE)

SearchHint ==
    /\ Len(games[1].board.move_stack) < MaxAutoPlies
    /\ games[1].hints_used < MaxSearchHints
    /\ api_hint(1, EngineFailure)

SearchMove ==
    /\ Len(games[1].board.move_stack) < MaxAutoPlies
    /\ api_move_auto(1, EngineFailure)

NextSearch == SearchHint \/ SearchMove

SpecSearch == InitSearch /\ [][NextSearch]_vars

(***************************************************************************)
(* Several sessions side by side: the web application with MaxSessions     *)
(* sessions, whose clients follow the two short games and ask for few      *)
(* hints.                                                                  *)
(***************************************************************************)
MaxSessions == 2
MaxSessionHints == 1

SessionLines == {FoolsMate}

SessionIds == 1..(MaxSessions + 1)

SessionMoves(game_id) ==
    IF game_id \in DOMAIN games
    THEN Continuations(SessionLines, games[game_id].board) \cup {"e9e4"}
    ELSE {"e2e4"}

SessionOutcomesOf(g) ==
    IF g.stockfish
    THEN { sf \in EngineReplies(SessionLines, g.board) : sf.raises => SearchAllowed(g) }
    ELSE IF SearchAllowed(g) THEN {EngineFailure} ELSE {}

SessionOutcomes(game_id) ==
    IF game_id \in DOMAIN games THEN SessionOutcomesOf(games[game_id]) ELSE {NoReply}

SessionsNewGame(found) == game_counter < MaxSessions /\ new_game(found)

SessionsHint(game_id, sf) ==
    /\ game_id \in DOMAIN games => games[game_id].hints_used < MaxSessionHints
    /\ api_hint(game_id, sf)

NextSessions ==
    \/ \E found \in BOOLEAN : SessionsNewGame(found)
    \/ \E game_id \in SessionIds : api_get_game(game_id)
    \/ \E game_id \in SessionIds : \E move_uci \in SessionMoves(game_id) :
          api_move(game_id, move_uci)
    \/ \E game_id \in SessionIds : \E sf \in SessionOutcomes(game_id) :
          api_move_auto(game_id, sf)
    \/ \E game_id \in SessionIds : \E sf \in SessionOutcomes(game_id) :
          SessionsHint(game_id, sf)

SpecSessions == Init /\ [][NextSessions]_vars

(***************************************************************************)
(* The web application under the threaded server of app.run: every request *)
(* runs in a thread of its own, and the statements of new_game() in        *)
(* different threads interleave.  game_counter += 1 is taken as one step.  *)
(***************************************************************************)
MaxRequests == 2

\* A thread that has entered new_game(): the statement it has come to, what
\* _init_stockfish will find, the session it built and the game_id it
\* answered.
RequestThread(found) == [pc |-> "start", found |-> found, game |-> NoGame, game_id |-> 0]

At(t, pc) == requests[t].pc = pc

ThreadStep(t, thread) ==
    /\ requests' = [requests EXCEPT ![t] = thread]
    /\ UNCHANGED <<program, resp, gui, chess_engine>>

NewGameReceive(found) ==
    /\ program = "web"
    /\ Len(requests) < MaxRequests
    /\ requests' = Append(requests, RequestThread(found))
    /\ UNCHANGED <<program, games, game_counter, resp, gui, chess_engine>>

\* game_counter += 1
NewGameCount(t) ==
    /\ At(t, "start")
    /\ game_counter' = game_counter + 1
    /\ ThreadStep(t, [requests[t] EXCEPT !.pc = "counted"])
    /\ UNCHANGED games

\* game = ChessGame(game_counter, difficulty, time_limit)
NewGameBuild(t) ==
    /\ At(t, "counted")
    /\ ThreadStep(t, [requests[t] EXCEPT
                        !.pc = "built",
                        !.game = ChessGame(game_counter, DefaultDifficulty, None,
                                           requests[t].found)])
    /\ UNCHANGED <<games, game_counter>>

\* games[game_counter] = game
NewGameStore(t) ==
    /\ At(t, "built")
    /\ games' = [k \in DOMAIN games \cup {game_counter} |->
                    IF k = game_counter THEN requests[t].game ELSE games[k]]
    /\ ThreadStep(t, [requests[t] EXCEPT !.pc = "stored"])
    /\ UNCHANGED game_counter

\* return jsonify({"success": True, "game_id": game_counter, ...})
NewGameReply(t) ==
    /\ At(t, "stored")
    /\ ThreadStep(t, [requests[t] EXCEPT !.pc = "done", !.game_id = game_counter])
    /\ UNCHANGED <<games, game_counter>>

NextServer ==
    \/ \E found \in BOOLEAN : NewGameReceive(found)
    \/ \E t \in DOMAIN requests : NewGameCount(t)
    \/ \E t \in DOMAIN requests : NewGameBuild(t)
    \/ \E t \in DOMAIN requests : NewGameStore(t)
    \/ \E t \in DOMAIN requests : NewGameReply(t)

SpecServer == Init /\ [][NextServer]_vars

(***************************************************************************)
(* The desktop program under a time control.  The player selected "1 min", *)
(* started a game as White and opened it; the clock, which starts with the *)
(* first move, has run for a while.  The clock is followed from MaxTicks   *)
(* ticks before a side's time is up: a tick is taken when the side to move *)
(* has no more than that left.                                             *)
(***************************************************************************)
MaxTicks == 2

TimedControl == "1"

\* The program after New Game (Yes) and the player's first move.
OpenedGame(found) ==
    LET started == _new_game([ChessGUI(found) EXCEPT !.time_control = TimedControl], "Yes")
        first == from_uci(FoolsMate[1]).move
    IN  _on_click(_on_click(started, first.from), first.to)

\* ... and after the engine's reply to it.
AnsweredGame ==
    LET returned == ThinkReturn(ThinkRead(OpenedGame(TRUE), 1), 1,
                                [raises |-> FALSE, move |-> FoolsMate[2]])
    IN  RunCallback([returned EXCEPT !.pending = <<>>], returned.pending[1])

LowTime == MaxTicks * TickMs

ClockStarts ==
    { [OpenedGame(found) EXCEPT !.black_time_ms = left] :
          found \in BOOLEAN, left \in {LowTime, TIME_PRESETS[TimedControl]} }
    \cup { [AnsweredGame EXCEPT !.white_time_ms = LowTime] }

InitClock ==
    /\ program = "gui"
    /\ games = <<>> /\ game_counter = 0
    /\ resp = Response("start", 0, None, 200, None, NoGame)
    /\ requests = <<>>
    /\ chess_engine = ChessEngine(FALSE)
    /\ gui \in ClockStarts

\* The main loop runs the callback tick.
Tick ==
    /\ gui.clock_job_id # None
    /\ ClockOf(gui) <= MaxTicks * TickMs
    /\ GuiStep(tick(gui))

NextClock ==
    \/ \E square \in ClickSquares(gui.board) : Click(square)
    \/ \E result \in {"Yes", "No", "Cancel"} : NewGame(result)
    \/ UndoMove
    \/ \E i \in DOMAIN gui.workers : WorkerRead(i)
    \/ \E i \in DOMAIN gui.workers : \E sf \in EngineReplies(GuiLines, gui.workers[i].board) :
          WorkerReturn(i, sf)
    \/ \E i \in DOMAIN gui.pending : MainLoop(i)
    \/ Tick

SpecClock == InitClock /\ [][NextClock]_vars

(***************************************************************************)
(* The command-line program (main() of chess_engine.py): the calls it      *)
(* makes on its ChessEngine.  The moves typed are those of a game that     *)
(* leads to castling, in UCI and in algebraic notation, and some others.   *)
(* The random choice of _get_fallback_move is followed in the first        *)
(* MaxRandomPly plies, and a game up to MaxCliPly plies.                   *)
(***************************************************************************)
MaxCliPly == 7
MaxRandomPly == 2

CastleLine == <<"e2e4", "e7e5", "g1f3", "b8c6", "f1c4", "f8c5", "e1g1">>
CastleLineSan == <<"e4", "e5", "Nf3", "Nc6", "Bc4", "Bc5", "O-O">>
CliLines == {CastleLine}

CliStrayMoves == {"e1h1", "e2e5", "O-O-O"}

\* The strings typed on board b.
CliMoves(b) ==
    Continuations(CliLines, b)
    \cup { CastleLineSan[Len(b.move_stack) + 1] : u \in Continuations(CliLines, b) }
    \cup CliStrayMoves

\* What the call of the external engine does, where there is one.
CliReplies(e) ==
    IF e.stockfish
    THEN { sf \in EngineReplies(CliLines, e.board) :
              sf.raises => Len(e.board.move_stack) < MaxRandomPly }
    ELSE IF Len(e.board.move_stack) < MaxRandomPly THEN {EngineFailure} ELSE {}

CliStep(e2) ==
    /\ program = "cli"
    /\ chess_engine' = e2
    /\ UNCHANGED <<program, games, game_counter, resp, gui, requests>>

CliMakeMove(move_str) ==
    /\ Len(chess_engine.board.move_stack) < MaxCliPly
    /\ CliStep(ChessEngine_make_move(chess_engine, move_str).engine)

CliEngineMove(sf) ==
    /\ Len(chess_engine.board.move_stack) < MaxCliPly
    /\ \E best_move \in ChessEngine_get_best_move(chess_engine.board, chess_engine.stockfish, sf) :
          CliStep(engine_move(chess_engine, best_move))

CliUndoMove == CliStep(undo_move(chess_engine))

CliReset == CliStep(reset(chess_engine))

InitCli == program = "cli" /\ \E found \in BOOLEAN : Start(found)

NextCli ==
    \/ \E move_str \in CliMoves(chess_engine.board) : CliMakeMove(move_str)
    \/ \E sf \in CliReplies(chess_engine) : CliEngineMove(sf)
    \/ CliUndoMove
    \/ CliReset

SpecCli == InitCli /\ [][NextCli]_vars

(***************************************************************************)
(* Properties of the sessions of the web application.  A step answers one  *)
(* request; resp' tells which, and to which session.                       *)
(***************************************************************************)
\* In the step, session k answered a request of one of the kinds ops.
Answered(k, ops) == resp'.op \in ops /\ resp'.game_id = k

\* The last request was of kind op and was answered with status.
LastAnswer(op, status) == resp.op = op /\ resp.status = status

\* C1: once game_over is set on a session, every later move request on it,
\* the player's or the engine's, is rejected and leaves the board and
\* move_count as they were.
TerminalRejectsMoves ==
    [][\A k \in DOMAIN games :
          games[k].game_over /\ Answered(k, {"move", "auto"})
          => /\ resp'.status = 400
             /\ games'[k].board = games[k].board
             /\ games'[k].move_count = games[k].move_count]_vars

\* C2: once game_over is set on a session, its winner and reason keep
\* their values under every later request.
OutcomeImmutable ==
    [][\A k \in DOMAIN games :
          games[k].game_over
          => /\ games'[k].winner = games[k].winner
             /\ games'[k].reason = games[k].reason]_vars

\* C3: a session stays, and game_over is one of FALSE (Active) and TRUE
\* (Terminal) and never goes from TRUE back to FALSE.
TerminalAbsorbing ==
    [][\A k \in DOMAIN games :
          /\ k \in DOMAIN games'
          /\ games[k].game_over \in BOOLEAN /\ games'[k].game_over \in BOOLEAN
          /\ games[k].game_over => games'[k].game_over]_vars

\* A session that is over has taken a further move, to a position that is
\* not an end of the game.
MovedAfterTerminal ==
    /\ LastAnswer("move", 200)
    /\ \E k \in DOMAIN games : games[k].game_over /\ ~is_game_over(games[k].board)

\* C4: a player's move that is missing or empty, does not parse, or is not a
\* legal move of the position is answered as a rejection (status 400) and
\* changes no field of the session.
Rejectable(b, u) == ~Truthy(u) \/ ~from_uci(u).ok \/ ~is_legal(b, from_uci(u).move)

InvalidMoveRejected ==
    [][\A k \in DOMAIN games :
          Answered(k, {"move"}) /\ Rejectable(games[k].board, resp'.sent)
          => resp'.status = 400 /\ games'[k] = games[k]]_vars

\* The queen move of the fool's mate was sent where it is not legal, to a
\* session with moves played, and rejected.
IllegalMoveSent ==
    /\ LastAnswer("move", 400) /\ resp.sent = "d8h4"
    /\ \E k \in DOMAIN games : games[k].move_count > 0 /\ resp.game_id = k

\* C5: an accepted move on an Active session adds exactly 1 to move_count,
\* passes the turn and sets game_over as the new position tells; and after
\* e2e4 and e7e5 on a new session the state reported has move_count 2,
\* turn White and game_over false.
OpenGameReported ==
    \A k \in DOMAIN games :
        Played(games[k].board) = OpenGame
        => /\ to_dict(games[k]).move_count = 2
           /\ to_dict(games[k]).turn = "White"
           /\ to_dict(games[k]).game_over = FALSE

AcceptedMoveCounts ==
    /\ []OpenGameReported
    /\ [][\A k \in DOMAIN games :
             Answered(k, {"move", "auto"}) /\ resp'.status = 200 /\ ~games[k].game_over
             => /\ games'[k].move_count = games[k].move_count + 1
                /\ games'[k].board.turn = ~games[k].board.turn
                /\ games'[k].game_over = is_game_over(games'[k].board)
                /\ resp'.game = to_dict(games'[k])]_vars

\* The answer to e7e5 after e2e4.
OpenGamePlayed ==
    /\ LastAnswer("move", 200) /\ resp.sent = "e7e5"
    /\ \E k \in DOMAIN games : resp.game_id = k /\ Played(games[k].board) = OpenGame

\* C6: a move that ends the game makes the session Terminal, with the
\* outcome fixed in this order: checkmate, won by the colour that is not
\* to move; else stalemate, a draw; else insufficient material, a draw;
\* else a draw with the generic reason.  After 1.f3 e5 2.g4 the move d8h4
\* gives game_over, winner Black, reason Checkmate.
NotToMove(b) == IF b.turn = WHITE THEN "Black" ELSE "White"

OutcomeFixed(g) ==
    /\ g.game_over
    /\ is_checkmate(g.board) => g.winner = NotToMove(g.board) /\ g.reason = "Checkmate"
    /\ ~is_checkmate(g.board) => g.winner = "Draw"
    /\ ~is_checkmate(g.board) /\ is_stalemate(g.board) => g.reason = "Stalemate"
    /\ ~is_checkmate(g.board) /\ ~is_stalemate(g.board) /\ is_insufficient_material(g.board)
       => g.reason = "Insufficient material"
    /\ ~is_checkmate(g.board) /\ ~is_stalemate(g.board) /\ ~is_insufficient_material(g.board)
       => g.reason = "Game ended"

\* The outcome _check_game_over fixes on a session that came to board b.
FixedOn(b) ==
    <<_check_game_over([ChessGame(1, DefaultDifficulty, None, FALSE) EXCEPT !.board = b]).winner,
      _check_game_over([ChessGame(1, DefaultDifficulty, None, FALSE) EXCEPT !.board = b]).reason>>

LateOutcomes ==
    /\ FixedOn(BareKings) = <<"Draw", "Insufficient material">>
    /\ is_stalemate(CorneredKing) /\ is_insufficient_material(CorneredKing)
    /\ FixedOn(CorneredKing) = <<"Draw", "Stalemate">>
    /\ ~is_insufficient_material(ClockRunOut) /\ ~is_stalemate(ClockRunOut)
    /\ FixedOn(ClockRunOut) = <<"Draw", "Game ended">>

FoolsMateDecided ==
    \A k \in DOMAIN games :
        Played(games[k].board) = FoolsMate
        => games[k].game_over /\ games[k].winner = "Black" /\ games[k].reason = "Checkmate"

OutcomeByPriority ==
    /\ LateOutcomes
    /\ []FoolsMateDecided
    /\ [][\A k \in DOMAIN games :
             /\ Answered(k, {"move", "auto"}) /\ resp'.status = 200 /\ ~games[k].game_over
             /\ is_game_over(games'[k].board)
             => OutcomeFixed(games'[k])]_vars

\* The answer to d8h4 after 1.f3 e5 2.g4.
FoolsMatePlayed ==
    /\ LastAnswer("move", 200) /\ resp.sent = "d8h4"
    /\ \E k \in DOMAIN games :
          resp.game_id = k /\ Played(games[k].board) = FoolsMate /\ is_checkmate(games[k].board)

\* C7: hints_used never exceeds max_hints, which is 5; a hint request on a
\* session that has used 5 is rejected and leaves hints_used at 5; and the
\* desktop program's counter of the game has the same limit, a request at
\* the limit changing nothing.
HintsWithinLimit ==
    /\ \A k \in DOMAIN games : games[k].max_hints = 5 /\ games[k].hints_used <= games[k].max_hints
    /\ gui.max_hints_per_game = 5 /\ gui.hints_used <= gui.max_hints_per_game
    /\ gui.hints_used >= gui.max_hints_per_game
       => \A sf \in EngineReplies(GuiLines, gui.board) : _get_hint(gui, sf) = gui

HintLimitByRejection ==
    /\ []HintsWithinLimit
    /\ [][/\ \A k \in DOMAIN games :
                Answered(k, {"hint"}) /\ games[k].hints_used >= 5
                => resp'.status = 400 /\ games'[k] = games[k]
          /\ gui'.hints_used \in {gui.hints_used, gui.hints_used + 1, 0}]_vars

\* A hint request rejected on a session that has used its 5 hints.
HintsExhausted ==
    /\ LastAnswer("hint", 400)
    /\ \E k \in DOMAIN games : resp.game_id = k /\ games[k].hints_used = 5

\* The desktop program at its limit.
GuiHintsExhausted == program = "gui" /\ gui.hints_used = 5 /\ ~is_game_over(gui.board)

\* C8: a hint request on a session whose game_over is set is rejected and
\* changes no field of the session.
TerminalRejectsHints ==
    [][\A k \in DOMAIN games :
          games[k].game_over /\ Answered(k, {"hint"})
          => resp'.status = 400 /\ games'[k] = games[k]]_vars

\* C9: a hint request that succeeds answers a move and changes the session
\* in hints_used only, by exactly +1: board, move_count, game_over, winner
\* and reason are as before.
HintLeavesPosition ==
    [][\A k \in DOMAIN games :
          Answered(k, {"hint"}) /\ resp'.status = 200
          => /\ Truthy(resp'.hint)
             /\ games'[k] = [games[k] EXCEPT !.hints_used = games[k].hints_used + 1]]_vars

\* A hint found by the fallback search, which plays moves on the session's
\* board and takes them back.
SearchedHint ==
    /\ LastAnswer("hint", 200) /\ resp.hint = StartSearch.move
    /\ \E k \in DOMAIN games : resp.game_id = k /\ ~games[k].stockfish /\ games[k].hints_used = 1

\* C10: an engine move requested for a session whose side to move has no
\* legal move is rejected (status 400), and get_engine_move answers no
\* move; board and move_count are unchanged.
NoMoveWithoutLegalMoves ==
    \A k \in DOMAIN games :
        legal_moves(games[k].board) = <<>>
        => \A sf \in EngineReplies(Lines, games[k].board) \cup {[raises |-> FALSE, move |-> "d8h4"]} :
              /\ get_engine_move(games[k], sf).move = None
              /\ get_engine_move(games[k], sf).game.board = games[k].board
              /\ get_engine_move(games[k], sf).game.move_count = games[k].move_count

EngineMoveNeedsLegalMove ==
    /\ []NoMoveWithoutLegalMoves
    /\ [][\A k \in DOMAIN games :
             Answered(k, {"auto"}) /\ legal_moves(games[k].board) = <<>>
             => /\ resp'.status = 400
                /\ games'[k].board = games[k].board
                /\ games'[k].move_count = games[k].move_count]_vars

\* An engine move requested, and rejected, after the fool's mate.
EngineMoveAfterMate ==
    /\ LastAnswer("auto", 400)
    /\ \E k \in DOMAIN games : resp.game_id = k /\ is_checkmate(games[k].board)

\* C11: on an Active session the engine's move comes from the external
\* engine if the session has one and its call does not fail, and from the
\* fallback search otherwise; it is applied exactly as make_move applies a
\* player's move (only if legal, move_count + 1, the same check of the end
\* of the game), and a missing or illegal move leaves the session unchanged.
MoveSource(g, sf) ==
    IF g.stockfish /\ ~sf.raises THEN sf.move ELSE FallbackSearch(g.board).move

AsPlayerMove(g, u) ==
    IF Truthy(u) /\ make_move(g, u).ok
    THEN [move |-> u, game |-> make_move(g, u).game]
    ELSE [move |-> None, game |-> g]

EngineMoveFollowsSource ==
    \A k \in DOMAIN games :
        ~games[k].game_over
        => \A sf \in EngineOutcomes(games[k]) :
              get_engine_move(games[k], sf) = AsPlayerMove(games[k], MoveSource(games[k], sf))

EngineMoveAsPlayerMove ==
    /\ []EngineMoveFollowsSource
    /\ [][\A k \in DOMAIN games :
             Answered(k, {"auto"}) /\ ~games[k].game_over
             => \/ resp'.status = 400 /\ games'[k] = games[k]
                \/ /\ resp'.status = 200
                   /\ games'[k].move_count = games[k].move_count + 1
                   /\ games'[k] = make_move(games[k], uci(games'[k].board.move_stack[
                                                     Len(games'[k].board.move_stack)])).game]_vars

\* The fallback search has moved for a session without an external engine.
SearchMovePlayed ==
    /\ LastAnswer("auto", 200)
    /\ \E k \in DOMAIN games :
          resp.game_id = k /\ ~games[k].stockfish /\ Played(games[k].board) = <<StartSearch.move>>

\* C12: in each front end, when there is no external engine, a request for
\* an engine move on a position that is not an end of the game gets its
\* move from the minimax search and from nothing else: the web session's
\* get_best_move, the command-line engine's get_best_move on a new board,
\* and the desktop program's _engine_move, which has to produce a move.
SearchIsSoleSource ==
    /\ \A k \in DOMAIN games :
          ~games[k].stockfish /\ games[k].board = StartBoard
          => get_best_move(games[k], EngineFailure).move = StartSearch.move
    /\ ChessEngine_get_best_move(StartBoard, FALSE, NoReply) = {StartSearch.move}
    /\ program = "gui" /\ ~gui.stockfish /\ ~is_game_over(gui.board)
       => _engine_move(gui) # gui

(***************************************************************************)
(* Properties of the fallback search, on the sessions of SpecSearch.       *)
(***************************************************************************)
\* The session k is where the search is followed.
Searched(k) == Len(games[k].board.move_stack) < MaxAutoPlies

Least(S) == CHOOSE x \in S : \A y \in S : x <= y
Greatest(S) == CHOOSE x \in S : \A y \in S : x >= y

\* The indices of a sequence of numbers at which it is greatest.
BestIndices(scores) == { i \in DOMAIN scores : \A j \in DOMAIN scores : scores[j] <= scores[i] }

\* C13: for either colour to move, the search at depth 2 returns a move
\* that maximises, over the mover's legal moves, the minimum over the
\* opponent's replies of the static evaluation oriented to the mover.
Oriented(b, mover) == IF mover = WHITE THEN _evaluate_position(b) ELSE -_evaluate_position(b)

RepliesWorst(b, lm, mover) ==
    IF is_game_over(b) THEN Oriented(b, mover)
    ELSE Least({ Oriented(push(b, lm[j]), mover) : j \in DOMAIN lm })

WorstReply(b, mover) == RepliesWorst(b, legal_moves(b), mover)

MoverScores(b, lm) == [i \in DOMAIN lm |-> WorstReply(push(b, lm[i]), b.turn)]

MovesAt(lm, indices) == { uci(lm[i]) : i \in indices }

BestForMover(b) == MovesAt(legal_moves(b), BestIndices(MoverScores(b, legal_moves(b))))

SearchMaximisesForMover ==
    \A k \in DOMAIN games :
        Searched(k) /\ legal_moves(games[k].board) # <<>>
        => FallbackSearch(games[k].board).move \in BestForMover(games[k].board)

\* C14: on a checkmated position the evaluation is the mate sentinel signed
\* for the side that delivered mate, positive favouring White: -10000 when
\* White is to move and checkmated, +10000 when Black is.
MateSentinelSigned ==
    \A k \in DOMAIN games :
        is_checkmate(games[k].board)
        => _evaluate_position(games[k].board)
              = (IF games[k].board.turn = WHITE THEN -MateScore ELSE MateScore) * ScoreScale

\* C15: on the standard starting position the evaluation is exactly 0.
StartEvaluatesToZero ==
    \A k \in DOMAIN games :
        games[k].board = StartBoard => _evaluate_position(games[k].board) = 0

\* C16: the search leaves the board as it found it (pieces, side to move,
\* move stack): _minimax_move, and every _minimax call, on every exit path,
\* the break of the pruning included.
MaxDepth == 2

MinimaxLeavesBoard(b) ==
    \A is_maximizing \in BOOLEAN :
        /\ \A depth \in 0..MaxDepth :
              _minimax(b, depth, -Infinity, Infinity, is_maximizing).board = b
        /\ _minimax(b, 1, 0, 0, is_maximizing).board = b

SearchRestoresBoard ==
    \A k \in DOMAIN games :
        Searched(k)
        => /\ FallbackSearch(games[k].board).board = games[k].board
           /\ MinimaxLeavesBoard(games[k].board)

\* A hint was searched on a board where a closed window cuts the loop short
\* of the best score.
CutShort(b) ==
    _minimax(b, 1, 0, 0, TRUE).score # _minimax(b, 1, -Infinity, Infinity, TRUE).score

SearchedWithBreak ==
    /\ LastAnswer("hint", 200)
    /\ \E k \in DOMAIN games : resp.game_id = k /\ Searched(k) /\ CutShort(games[k].board)

\* C17: pruning and move order do not change the scores: the score of
\* _minimax with the full window is that of the same recursion without
\* pruning, for each depth, and the best root score is the same for the
\* legal moves taken in other orders (reversed, rotated).
RECURSIVE PlainMinimax(_, _, _)
PlainOver(b, lm, depth, is_maximizing) ==
    IF is_maximizing
    THEN Greatest({ PlainMinimax(push(b, lm[i]), depth - 1, FALSE) : i \in DOMAIN lm })
    ELSE Least({ PlainMinimax(push(b, lm[i]), depth - 1, TRUE) : i \in DOMAIN lm })

PlainMinimax(b, depth, is_maximizing) ==
    IF depth = 0 \/ is_game_over(b) THEN _evaluate_position(b)
    ELSE PlainOver(b, legal_moves(b), depth, is_maximizing)

Reverse(seq) == [i \in DOMAIN seq |-> seq[Len(seq) + 1 - i]]
Rotate(seq) == [i \in DOMAIN seq |-> seq[(i % Len(seq)) + 1]]

BestScoreIn(b, moves) == MinimaxMoveOver(b, moves, FallbackDepth).best_score

OrderFree(b, lm) ==
    /\ BestScoreIn(b, Reverse(lm)) = BestScoreIn(b, lm)
    /\ BestScoreIn(b, Rotate(lm)) = BestScoreIn(b, lm)

PruningFree(b) ==
    \A is_maximizing \in BOOLEAN : \A depth \in 1..MaxDepth :
        _minimax(b, depth, -Infinity, Infinity, is_maximizing).score
            = PlainMinimax(b, depth, is_maximizing)

PruningKeepsScores ==
    \A k \in DOMAIN games :
        Searched(k) /\ legal_moves(games[k].board) # <<>>
        => PruningFree(games[k].board) /\ OrderFree(games[k].board, legal_moves(games[k].board))

\* A board was searched on which the reversed order finds another move.
OrderChangesMove ==
    /\ LastAnswer("auto", 200)
    /\ \E k \in DOMAIN games :
          /\ resp.game_id = k /\ games[k].move_count = 1
          /\ MinimaxMoveOver(pop(games[k].board), Reverse(legal_moves(pop(games[k].board))),
                             FallbackDepth).best_move
                # uci(games[k].board.move_stack[1])

\* C18: among the root moves of the best score the search returns the
\* first in the order of the legal moves.
RootScore(pushed, depth) ==
    -(_minimax(pushed, depth - 1, -Infinity, Infinity, ~pushed.turn).score)

RootScores(b, lm, depth) == [i \in DOMAIN lm |-> RootScore(push(b, lm[i]), depth)]

FirstBest(b, lm) == uci(lm[Least(BestIndices(RootScores(b, lm, FallbackDepth)))])

FirstBestWins ==
    \A k \in DOMAIN games :
        Searched(k) /\ legal_moves(games[k].board) # <<>>
        => FallbackSearch(games[k].board).move = FirstBest(games[k].board, legal_moves(games[k].board))

\* A hint was searched on a board where several root moves share the best
\* score.
TiedBest(b, lm) == Cardinality(BestIndices(RootScores(b, lm, FallbackDepth))) > 1

SearchedWithTie ==
    /\ LastAnswer("hint", 200)
    /\ \E k \in DOMAIN games :
          resp.game_id = k /\ Searched(k) /\ TiedBest(games[k].board, legal_moves(games[k].board))

\* C19: the search returns no move if and only if the position has no
\* legal move; otherwise it returns one of the legal moves.
SearchFindsLegalMove ==
    \A k \in DOMAIN games :
        Searched(k)
        => /\ FallbackSearch(games[k].board).move = None <=> legal_moves(games[k].board) = <<>>
           /\ legal_moves(games[k].board) # <<>>
              => is_legal(games[k].board, from_uci(FallbackSearch(games[k].board).move).move)

\* A hint was asked for, and none found, on a position without legal moves.
SearchedWithoutMoves ==
    /\ LastAnswer("hint", 400)
    /\ \E k \in DOMAIN games :
          resp.game_id = k /\ games[k].hints_used = 1 /\ legal_moves(games[k].board) = <<>>

\* C20: the depth of the search is the caller's: without an external
\* engine, get_best_move(depth = d) searches to depth d.
DepthFollowsCaller ==
    \A k \in DOMAIN games :
        Searched(k)
        => \A depth \in 1..MaxDepth :
              get_best_move_to(games[k], depth, EngineFailure).move
                  = _minimax_move(games[k].board, depth).move

(***************************************************************************)
(* Properties of the registry of sessions.                                 *)
(***************************************************************************)
\* The step answered a request of one of the kinds ops.
AnsweredOf(ops) == resp'.op \in ops

\* C21: a move, an engine move or a hint on one session leaves every other
\* session as it was, and a request that names an unknown session is
\* answered 404, creates no session and changes none.
OthersUntouched ==
    AnsweredOf({"move", "auto", "hint"}) =>
        \A k \in DOMAIN games :
            k # resp'.game_id => k \in DOMAIN games' /\ games'[k] = games[k]

UnknownNotFound ==
    (AnsweredOf({"get_game", "move", "auto", "hint"}) /\ resp'.game_id \notin DOMAIN games) =>
        resp'.status = 404 /\ games' = games /\ game_counter' = game_counter

SessionsIndependent == [][OthersUntouched /\ UnknownNotFound]_vars

\* Two sessions that have come apart: a move was just accepted on the second
\* while the first stands elsewhere.
SecondSessionMoved ==
    /\ DOMAIN games = {1, 2}
    /\ LastAnswer("move", 200) /\ resp.game_id = 2
    /\ games[1].move_count > 0
    /\ games[1].board # games[2].board

(***************************************************************************)
(* Properties of the desktop program and its engine thread.                *)
(***************************************************************************)
\* An engine computation is in flight: a thread started by _engine_move has
\* not returned, or the move it found waits to be applied.
InFlight(g) ==
    \/ g.workers # <<>>
    \/ \E i \in DOMAIN g.pending : g.pending[i].fn = "_apply_engine_move"

\* The step is one of the user's actions on the window.
UserAction ==
    \/ \E square \in ClickSquares(gui.board) : Click(square)
    \/ \E result \in {"Yes", "No", "Cancel"} : NewGame(result)
    \/ FlipBoard
    \/ UndoMove

\* C22: while an engine computation is in flight no action of the user
\* (a click on the board, Undo Move, New Game, Flip Board) changes the
\* position.
BoardHeldDuringSearch ==
    [][(InFlight(gui) /\ UserAction) => gui'.board = gui.board]_vars

\* C23: a hint asked for while engine_thinking is set does not reach the
\* external engine, so that it changes nothing and hints_used stays.
BusyRejectsHints ==
    [][\A sf \in HintReplies :
          (gui.engine_thinking /\ GetHint(sf)) => gui'.hints_used = gui.hints_used]_vars

(***************************************************************************)
(* The engine call that produces nothing.                                  *)
(***************************************************************************)
\* The engine call produced no move: it raised, or it returned None.
Missing(sf) == sf.raises \/ ~Truthy(sf.move)

\* The step left the board, the move count and the outcome of session k.
SessionKept(k) ==
    /\ games'[k].board = games[k].board
    /\ games'[k].move_count = games[k].move_count
    /\ games'[k].game_over = games[k].game_over
    /\ games'[k].winner = games[k].winner
    /\ games'[k].reason = games[k].reason

\* The callbacks of a queue that apply an engine move.
ApplyCallbacks(pending) == SelectSeq(pending, LAMBDA cb : cb.fn = "_apply_engine_move")

\* The step answered an engine move asked of session k, whose engine call
\* did sf.
AutoStep(k, sf) ==
    /\ Answered(k, {"auto"})
    /\ games'[k] = get_engine_move(games[k], sf).game

\* In the web application, an engine move asked of session k whose engine
\* call is one of sfs is answered with an error and changes nothing.
NoMoveProduced(k, sfs) ==
    \A sf \in sfs : AutoStep(k, sf) => SessionKept(k) /\ resp'.status = 400

\* ... or it is played from the fallback search and answered 200.
SearchMoveProduced(k, sfs) ==
    \A sf \in sfs :
        AutoStep(k, sf) =>
            /\ resp'.status = 200
            /\ games'[k].move_count = games[k].move_count + 1
            /\ Len(games'[k].board.move_stack) = Len(games[k].board.move_stack) + 1
            /\ pop(games'[k].board) = games[k].board

\* The sessions with an external engine whose game is not over.
EngineSessions == { k \in DOMAIN games : games[k].stockfish /\ ~games[k].game_over }

\* In the desktop program, a thread whose engine call produced nothing
\* schedules no move, leaves the board and clears the busy flag.
GuiNoMoveApplied ==
    \A i \in DOMAIN gui.workers :
        \A sf \in { r \in EngineReplies(GuiLines, gui.workers[i].board) : Missing(r) } :
            WorkerReturn(i, sf) =>
                /\ gui'.board = gui.board
                /\ ApplyCallbacks(gui'.pending) = ApplyCallbacks(gui.pending)
                /\ ~gui'.engine_thinking

\* C24 as stated: when the external engine returns no move or raises, the
\* web session keeps its board, move count and outcome and the request is
\* answered with an error, and the desktop program applies no move and
\* stays usable.
MissingResultIsNoMove ==
    [][/\ \A k \in EngineSessions :
             NoMoveProduced(k, { r \in OutcomesFor(k) : Missing(r) })
       /\ GuiNoMoveApplied]_vars

\* C24 amended: that holds of the web session when the external engine
\* returns no move; when it raises, the move of the fallback search is
\* played and the request answered 200.
MissingResultFallsBack ==
    [][/\ \A k \in EngineSessions :
             /\ NoMoveProduced(k, { r \in OutcomesFor(k) : ~r.raises /\ ~Truthy(r.move) })
             /\ SearchMoveProduced(k, { r \in OutcomesFor(k) : r.raises })
       /\ GuiNoMoveApplied]_vars

\* A session with an external engine whose engine call raised: the move
\* played is the one of the fallback search, which no script plays.
PlayedAfterFailure ==
    \E k \in DOMAIN games :
        /\ games[k].stockfish
        /\ LastAnswer("auto", 200) /\ resp.game_id = k
        /\ Played(games[k].board) = <<StartSearch.move>>

(***************************************************************************)
(* Invariants of a web session.                                            *)
(***************************************************************************)
\* The flag and the outcome of session g agree.
OutcomeAgrees(g) ==
    /\ ~g.game_over <=> (g.winner = None /\ g.reason = None)
    /\ g.game_over => g.winner \in {"White", "Black", "Draw"}
    /\ g.game_over => (g.winner \in {"White", "Black"} <=> g.reason = "Checkmate")

\* C25: in every state of a session game_over is false iff winner and
\* reason are both none; when it is true the winner is White, Black or
\* Draw, and it is White or Black iff the reason is Checkmate.
FlagAndOutcomeAgree == \A k \in DOMAIN games : OutcomeAgrees(games[k])

\* A game drawn by stalemate, and the session says so.
StalemateReached ==
    \E k \in DOMAIN games :
        /\ is_stalemate(games[k].board)
        /\ games[k].game_over /\ games[k].winner = "Draw" /\ games[k].reason = "Stalemate"

(***************************************************************************)
(* The registry under concurrent requests.                                 *)
(***************************************************************************)
\* The threads that have answered, and those that have stored a session.
Replied == { t \in DOMAIN requests : At(t, "done") }

HaveStored == { t \in DOMAIN requests : At(t, "stored") \/ At(t, "done") }

\* C26: with new-game requests handled concurrently, every request gets a
\* game_id of its own, every session is stored under its own game_id, and
\* no session is overwritten in the registry.
RegistryKeepsSessions ==
    /\ \A s, t \in Replied : s # t => requests[s].game_id # requests[t].game_id
    /\ \A k \in DOMAIN games : games[k].game_id = k
    /\ Cardinality(DOMAIN games) = Cardinality(HaveStored)

(***************************************************************************)
(* The fallback search and the mate in one.                                *)
(***************************************************************************)
\* The moves of lm that checkmate on board b, as UCI strings.
MatingMovesAmong(b, lm) ==
    { uci(lm[i]) : i \in { j \in DOMAIN lm : is_checkmate(push(b, lm[j])) } }

MatingMoves(b) == MatingMovesAmong(b, legal_moves(b))

\* C27: where the side to move can checkmate at once, White or Black, the
\* move the fallback search gives at its default depth is a checkmate.
SearchTakesMate ==
    \A k \in DOMAIN games :
        (LastAnswer("hint", 200) /\ resp.game_id = k /\ MatingMoves(games[k].board) # {})
        => resp.hint \in MatingMoves(games[k].board)

(***************************************************************************)
(* The engine's move and the position it was computed for.                 *)
(***************************************************************************)
\* C28: the move the engine thread computed for a position is played only
\* if the board still is that position when _apply_engine_move runs.
AppliedWhereComputed ==
    [][\A i \in DOMAIN gui.pending :
          (/\ gui.pending[i].fn = "_apply_engine_move"
           /\ MainLoop(i)
           /\ gui'.board # gui.board)
          => gui.board = gui.pending[i].position]_vars

(***************************************************************************)
(* The busy flag of the desktop program.                                   *)
(***************************************************************************)
\* C29: whenever engine_thinking is set it is cleared later, whether the
\* engine returns a move, returns none or raises.
BusyFlagCleared == gui.engine_thinking ~> ~gui.engine_thinking

\* The engine call raised: the status line is scheduled and the flag is
\* clear.
ClearedAfterFailure ==
    /\ ~gui.engine_thinking
    /\ \E i \in DOMAIN gui.pending : gui.pending[i].fn = "_update_status"

(***************************************************************************)
(* The move counter of a web session.                                      *)
(***************************************************************************)
\* C30: in every state of a session move_count is the number of moves on
\* the board's move stack, and White is to move iff it is even.
CountIsStackLength ==
    \A k \in DOMAIN games :
        /\ games[k].move_count = Len(games[k].board.move_stack)
        /\ games[k].board.turn = WHITE <=> games[k].move_count % 2 = 0

\* A session that has given a hint and has just played the engine's reply
\* to the player's move.
EngineRepliedAfterHint ==
    \E k \in DOMAIN games :
        /\ LastAnswer("auto", 200) /\ resp.game_id = k
        /\ games[k].hints_used > 0
        /\ games[k].move_count = 2

(***************************************************************************)
(* Properties of the clock of the desktop program.                         *)
(***************************************************************************)
\* A clock reached 0 and _end_game_on_timeout ran; no game was started since
\* (_new_game sets both clocks anew).
TimedOut(g) == ~g.game_in_progress /\ (g.white_time_ms = 0 \/ g.black_time_ms = 0)

\* C31: once a game of the desktop program has ended on timeout, no further
\* move, of the player or of the engine, is put on the board until a new
\* game is started: the move stack grows in no step taken from such a state.
NoMoveAfterTimeout ==
    [][TimedOut(gui) => Len(gui'.board.move_stack) <= Len(gui.board.move_stack)]_vars

(***************************************************************************)
(* Properties of the session of the command-line program.                  *)
(***************************************************************************)
\* C32: in the session of the command-line program, after any calls of
\* make_move, engine_move, undo_move and reset, move_history has the length
\* of the board's move stack and lists the same moves, as UCI strings, in
\* the same order.
HistoryListsStack == chess_engine.move_history = Played(chess_engine.board)

=============================================================================
